---- MODULE Spec2Model ----
(***************************************************************************)
(* MiniTwin (skybar): the intent router skybar_answer and its fourteen     *)
(* intent handlers, over a table of credit-request rows.                   *)
(*                                                                         *)
(* A query is a string; a table (pandas DataFrame) is a set of column      *)
(* names and a sequence of rows; a cell is a string as a CSV upload hands  *)
(* it over (MissingCell stands for pandas' NaN).  A handler returns None,  *)
(* a text, or raises; a text is a sequence of lines, each line a record    *)
(* holding the values the code formats into it.                            *)
(***************************************************************************)
EXTENDS Integers, Sequences, FiniteSets, TLC

VARIABLES
    df,                  \* the table held by the shell (st.session_state["df"])
    today,               \* pd.Timestamp.today().normalize(), as a day number
    LAST_TICKET_LOOKUP,  \* module-level global of ticket_requests.py
    query,               \* the query of the last skybar_answer call
    result,              \* what the last skybar_answer call did
    probe,               \* the first answer recorded for one query of the session
    hashseed,            \* PYTHONHASHSEED of the process: the order of a set of str
    shell,               \* the Streamlit script the session runs, "none" without one
    history,             \* st.session_state["history"]
    last_df,             \* st.session_state["last_df"]
    stubs                \* what the handlers put in INTENTS by a test return, <<>> without

vars == <<df, today, LAST_TICKET_LOOKUP, query, result, probe, hashseed,
          shell, history, last_df, stubs>>

(***************************************************************************)
(* Strings: Python's str operations and the regular expressions of the     *)
(* handlers, computed character by character.                              *)
(***************************************************************************)
UpperCase == "ABCDEFGHIJKLMNOPQRSTUVWXYZ"
LowerCase == "abcdefghijklmnopqrstuvwxyz"
DigitChars == "0123456789"

\* s[i-1:j] of Python: the characters i..j of s, clipped to s
Sub(s, i, j) ==
    LET a == IF i < 1 THEN 1 ELSE i
        b == IF j > Len(s) THEN Len(s) ELSE j
    IN IF a > b THEN "" ELSE SubSeq(s, a, b)

Ch(s, i) == IF i >= 1 /\ i <= Len(s) THEN SubSeq(s, i, i) ELSE ""

IndexIn(c, alphabet) ==
    IF \E i \in 1..Len(alphabet) : Ch(alphabet, i) = c
    THEN CHOOSE i \in 1..Len(alphabet) : Ch(alphabet, i) = c
    ELSE 0

IsDigit(c) == c # "" /\ IndexIn(c, DigitChars) > 0
IsAlpha(c) == c # "" /\ (IndexIn(c, UpperCase) > 0 \/ IndexIn(c, LowerCase) > 0)
IsWordChar(c) == IsDigit(c) \/ IsAlpha(c) \/ c = "_"
IsSpace(c) == c = " " \/ c = "\n" \/ c = "\t"
DigitValue(c) == IndexIn(c, DigitChars) - 1

lowerChar(c) == LET i == IndexIn(c, UpperCase) IN IF i = 0 THEN c ELSE Ch(LowerCase, i)
upperChar(c) == LET i == IndexIn(c, LowerCase) IN IF i = 0 THEN c ELSE Ch(UpperCase, i)

\* the characters lo..hi of s in lower case, by halves
RECURSIVE lowerRange(_, _, _)
lowerRange(s, lo, hi) ==
    IF lo > hi THEN ""
    ELSE IF lo = hi THEN lowerChar(Ch(s, lo))
    ELSE lowerRange(s, lo, (lo + hi) \div 2) \o lowerRange(s, (lo + hi) \div 2 + 1, hi)

lower(s) == lowerRange(s, 1, Len(s))

RECURSIVE upperRange(_, _, _)
upperRange(s, lo, hi) ==
    IF lo > hi THEN ""
    ELSE IF lo = hi THEN upperChar(Ch(s, lo))
    ELSE upperRange(s, lo, (lo + hi) \div 2) \o upperRange(s, (lo + hi) \div 2 + 1, hi)

upper(s) == upperRange(s, 1, Len(s))

RECURSIVE lstrip(_)
lstrip(s) == IF s # "" /\ IsSpace(Ch(s, 1)) THEN lstrip(Sub(s, 2, Len(s))) ELSE s

RECURSIVE rstrip(_)
rstrip(s) == IF s # "" /\ IsSpace(Ch(s, Len(s))) THEN rstrip(Sub(s, 1, Len(s) - 1)) ELSE s

strip(s) == rstrip(lstrip(s))

\* Python's k in s
Contains(s, k) == \E i \in 1..(Len(s) - Len(k) + 1) : Sub(s, i, i + Len(k) - 1) = k

startswith(s, k) == Len(k) <= Len(s) /\ Sub(s, 1, Len(k)) = k

AnyIn(s, ks) == \E k \in ks : Contains(s, k)

\* str.replace(old, "") for a one-character old
RECURSIVE removeCharRange(_, _, _, _)
removeCharRange(s, c, lo, hi) ==
    IF lo > hi THEN ""
    ELSE IF lo = hi THEN (IF Ch(s, lo) = c THEN "" ELSE Ch(s, lo))
    ELSE removeCharRange(s, c, lo, (lo + hi) \div 2)
         \o removeCharRange(s, c, (lo + hi) \div 2 + 1, hi)

removeChar(s, c) == removeCharRange(s, c, 1, Len(s))

\* the length of the run of digits (\d*) that starts at position i
RECURSIVE DigitRun(_, _)
DigitRun(s, i) == IF IsDigit(Ch(s, i)) THEN 1 + DigitRun(s, i + 1) ELSE 0

\* the length of the run of whitespace (\s*) that starts at position i
RECURSIVE SpaceRun(_, _)
SpaceRun(s, i) == IF IsSpace(Ch(s, i)) THEN 1 + SpaceRun(s, i + 1) ELSE 0

\* int() of a string of digits
RECURSIVE ParseInt(_)
ParseInt(s) ==
    IF s = "" THEN 0 ELSE 10 * ParseInt(Sub(s, 1, Len(s) - 1)) + DigitValue(Ch(s, Len(s)))

AllDigits(s) == s # "" /\ \A i \in 1..Len(s) : IsDigit(Ch(s, i))

(***************************************************************************)
(* Let([x \in {e} |-> body]) is body with x standing for the value of e,  *)
(* which is computed once however often body reads x.                       *)
(***************************************************************************)
Let(f) == f[CHOOSE v \in DOMAIN f : TRUE]

(***************************************************************************)
(* Cells.  Every cell, and every value a handler formats into a line, is   *)
(* a record of one shape: a string (object dtype), a number (float, held   *)
(* in cents), a Timestamp (day number and second of the day), NaT or NaN.  *)
(***************************************************************************)
Str(s) == [k |-> "str", s |-> s, d |-> 0, t |-> 0]
Num(c) == [k |-> "num", s |-> "", d |-> c, t |-> 0]
Ts(d, t) == [k |-> "ts", s |-> "", d |-> d, t |-> t]
NaT == [k |-> "nat", s |-> "", d |-> 0, t |-> 0]
NaN == [k |-> "nan", s |-> "", d |-> 0, t |-> 0]
\* Python's None (r.get("col", None), a handler that declines)
None == [k |-> "none", s |-> "", d |-> 0, t |-> 0]
MissingCell == NaN
\* an int, such as a count of days
Count(n) == [k |-> "count", s |-> "", d |-> n, t |-> 0]

isna(c) == c.k \in {"nan", "nat", "none"}
notna(c) == ~isna(c)

(***************************************************************************)
(* Dates: the proleptic Gregorian day number of a civil date, which is     *)
(* what pandas' Timestamp arithmetic works on.                             *)
(***************************************************************************)
IsLeap(y) == (y % 4 = 0 /\ y % 100 # 0) \/ y % 400 = 0
DaysInMonth(y, m) ==
    IF m = 2 THEN (IF IsLeap(y) THEN 29 ELSE 28)
    ELSE IF m \in {4, 6, 9, 11} THEN 30 ELSE 31

days_from_civil(y0, m, d) ==
    LET y == IF m <= 2 THEN y0 - 1 ELSE y0
        era == y \div 400
        yoe == y - era * 400
        mp == IF m > 2 THEN m - 3 ELSE m + 9
        doy == (153 * mp + 2) \div 5 + d - 1
        doe == yoe * 365 + yoe \div 4 - yoe \div 100 + doy
    IN era * 146097 + doe - 719468

\* the day of the month (1..31) of a day number
day_of_month(n) ==
    LET z == n + 719468
        era == z \div 146097
        doe == z - era * 146097
        yoe == (doe - doe \div 1460 + doe \div 36524 - doe \div 146096) \div 365
        doy == doe - (365 * yoe + yoe \div 4 - yoe \div 100)
        mp == (5 * doy + 2) \div 153
    IN doy - (153 * mp + 2) \div 5 + 1

\* the year of a day number
year_of(n) ==
    LET z == n + 719468
        era == z \div 146097
        doe == z - era * 146097
        yoe == (doe - doe \div 1460 + doe \div 36524 - doe \div 146096) \div 365
        doy == doe - (365 * yoe + yoe \div 4 - yoe \div 100)
        mp == (5 * doy + 2) \div 153
    IN yoe + era * 400 + (IF mp >= 10 THEN 1 ELSE 0)

\* Timestamp.replace(day=1) of a day number
month_start(n) == n - (day_of_month(n) - 1)

\* the day number of year y, month m, day d, or -1 when there is no such day
ymd_day(y, m, d) ==
    IF m >= 1 /\ m <= 12 /\ d >= 1 /\ d <= DaysInMonth(y, m) THEN days_from_civil(y, m, d) ELSE -1

\* "YYYY-MM-DD" at position i of s: the day number, or -1 when the text there
\* is no valid date
ParseYMD(s, i) ==
    IF /\ Len(s) >= i + 9
       /\ AllDigits(Sub(s, i, i + 3)) /\ AllDigits(Sub(s, i + 5, i + 6))
       /\ AllDigits(Sub(s, i + 8, i + 9))
       /\ Ch(s, i + 4) = "-" /\ Ch(s, i + 7) = "-"
    THEN ymd_day(ParseInt(Sub(s, i, i + 3)), ParseInt(Sub(s, i + 5, i + 6)),
                 ParseInt(Sub(s, i + 8, i + 9)))
    ELSE -1

\* the second of the day at h:m:sec, or -1 when there is no such time
hms_second(h, m, sec) == IF h <= 23 /\ m <= 59 /\ sec <= 59 THEN h * 3600 + m * 60 + sec ELSE -1

\* "HH:MM:SS" at position i of s: the second of the day, or -1
ParseHMS(s, i) ==
    IF /\ Len(s) >= i + 7
       /\ AllDigits(Sub(s, i, i + 1)) /\ AllDigits(Sub(s, i + 3, i + 4))
       /\ AllDigits(Sub(s, i + 6, i + 7))
       /\ Ch(s, i + 2) = ":" /\ Ch(s, i + 5) = ":"
    THEN hms_second(ParseInt(Sub(s, i, i + 1)), ParseInt(Sub(s, i + 3, i + 4)),
                    ParseInt(Sub(s, i + 6, i + 7)))
    ELSE -1

\* the Timestamp of a day and a second of that day, NaT when either is -1
day_time(day, second) == IF day < 0 \/ second < 0 THEN NaT ELSE Ts(day, second)

\* pd.to_datetime(value, errors="coerce") of one string: ISO dates, with or
\* without a time of day; anything else is NaT
to_datetime_str(s) ==
    IF Len(s) = 10 THEN day_time(ParseYMD(s, 1), 0)
    ELSE IF Len(s) = 19 /\ Ch(s, 11) \in {" ", "T"} THEN day_time(ParseYMD(s, 1), ParseHMS(s, 12))
    ELSE NaT

\* the cents of the digits whole, and of the decimals after the point of
\* rest; NaN when rest is no point followed by one or two decimals
cents_of(neg, whole, rest) ==
    IF rest = "" THEN Num((IF neg THEN -100 ELSE 100) * ParseInt(whole))
    ELSE IF Ch(rest, 1) = "." /\ Len(rest) \in {2, 3} /\ AllDigits(Sub(rest, 2, Len(rest)))
    THEN Num((IF neg THEN -1 ELSE 1)
             * (100 * ParseInt(whole)
                + (IF Len(rest) = 2 THEN 10 ELSE 1) * ParseInt(Sub(rest, 2, Len(rest)))))
    ELSE NaN

\* the number whose digits and decimals are body, n of them before the point
unsigned_str(neg, body, n) ==
    IF n >= 1 THEN cents_of(neg, Sub(body, 1, n), Sub(body, n + 1, Len(body))) ELSE NaN

signed_str(neg, body) == unsigned_str(neg, body, DigitRun(body, 1))

\* pd.to_numeric(value, errors="coerce") of one string, in cents: an optional
\* sign, digits, and at most two decimals; anything else is NaN
to_numeric_str(s) ==
    IF Ch(s, 1) = "-" THEN signed_str(TRUE, Sub(s, 2, Len(s))) ELSE signed_str(FALSE, s)

\* Series.str.extract(r"\[(\d{4}-\d{2}-\d{2} \d{2}:\d{2}:\d{2})\]")[0] of one
\* string: the first bracketed group of that shape, or NaN
IsStampAt(s, i) ==
    /\ Ch(s, i) = "["
    /\ Ch(s, i + 20) = "]"
    /\ \A j \in 1..19 :
          LET c == Ch(s, i + j)
          IN IF j \in {5, 8} THEN c = "-"
             ELSE IF j = 11 THEN c = " "
             ELSE IF j \in {14, 17} THEN c = ":"
             ELSE IsDigit(c)

extract_timestamp(s) ==
    IF \E i \in 1..Len(s) : IsStampAt(s, i)
    THEN LET i == CHOOSE i \in 1..Len(s) :
                     IsStampAt(s, i) /\ \A j \in 1..(i - 1) : ~IsStampAt(s, j)
         IN Str(Sub(s, i + 1, i + 19))
    ELSE NaN

(***************************************************************************)
(* The regular expressions of the handlers' triggers.                      *)
(***************************************************************************)
\* the numbers of S in increasing order
Ascending(S) ==
    [k \in 1..Cardinality(S) |-> CHOOSE i \in S : Cardinality({j \in S : j < i}) = k - 1]

\* re.findall(r"R-\d{min,}", s, flags=re.IGNORECASE) from position i on;
\* bounded: the pattern stands between two \b.  No match starts inside
\* another, so the matches are the positions at which the pattern matches
ticket_at(s, i, min, bounded) ==
    LET n == DigitRun(s, i + 2)
    IN /\ lowerChar(Ch(s, i)) = "r"
       /\ Ch(s, i + 1) = "-"
       /\ n >= min
       /\ bounded => /\ ~IsWordChar(Ch(s, i - 1))
                     /\ ~IsWordChar(Ch(s, i + 2 + n))

findall_ticket(s, i, min, bounded) ==
    LET at == Ascending({j \in i..Len(s) : ticket_at(s, j, min, bounded)})
    IN [k \in 1..Len(at) |-> Sub(s, at[k], at[k] + 1 + DigitRun(s, at[k] + 2))]

\* re.findall(r"\bINV-?\d{4,}\b", s, flags=re.IGNORECASE) from position i on
invoice_dash(s, i) == IF Ch(s, i + 3) = "-" THEN 1 ELSE 0

invoice_at(s, i) ==
    LET dash == invoice_dash(s, i)
        n == DigitRun(s, i + 3 + dash)
    IN /\ lower(Sub(s, i, i + 2)) = "inv"
       /\ n >= 4
       /\ ~IsWordChar(Ch(s, i - 1))
       /\ ~IsWordChar(Ch(s, i + 3 + dash + n))

findall_invoice(s, i) ==
    LET at == Ascending({j \in i..Len(s) : invoice_at(s, j)})
    IN [k \in 1..Len(at) |->
           Sub(s, at[k], at[k] + 2 + invoice_dash(s, at[k])
                               + DigitRun(s, at[k] + 3 + invoice_dash(s, at[k])))]

\* re.findall(r"\b\d{6,}\b", s) from position i on
number_at(s, i) ==
    LET n == DigitRun(s, i)
    IN /\ n >= 6
       /\ ~IsWordChar(Ch(s, i - 1))
       /\ ~IsWordChar(Ch(s, i + n))

findall_number(s, i) ==
    LET at == Ascending({j \in i..Len(s) : number_at(s, j)})
    IN [k \in 1..Len(at) |-> Sub(s, at[k], at[k] + DigitRun(s, at[k]) - 1)]

\* the first position from i on at which P holds, or 0
FirstPos(s, P(_)) ==
    IF \E i \in 1..Len(s) : P(i)
    THEN CHOOSE i \in 1..Len(s) : P(i) /\ \A j \in 1..(i - 1) : ~P(j)
    ELSE 0

\* the length of the run of [A-Za-z0-9_-] that starts at position i
RECURSIVE TokenRun(_, _)
TokenRun(s, i) ==
    IF IsWordChar(Ch(s, i)) \/ Ch(s, i) = "-" THEN 1 + TokenRun(s, i + 1) ELSE 0

\* re.search(r"customer(?:\s+number)?\s+([A-Za-z0-9_-]+)", s, re.IGNORECASE):
\* group 1, or "" when there is no match.  At a position the branch with
\* "number" is tried first, the branch without it second.
customer_token_at(s, i) ==
    LET sp1 == SpaceRun(s, i + 8)
        n0 == i + 8 + sp1
        hasNumber == sp1 >= 1 /\ lower(Sub(s, n0, n0 + 5)) = "number"
        sp2 == SpaceRun(s, n0 + 6)
        t2 == n0 + 6 + sp2
    IN IF lower(Sub(s, i, i + 7)) # "customer" THEN ""
       ELSE IF hasNumber /\ sp2 >= 1 /\ TokenRun(s, t2) >= 1
            THEN Sub(s, t2, t2 + TokenRun(s, t2) - 1)
       ELSE IF sp1 >= 1 /\ TokenRun(s, n0) >= 1
            THEN Sub(s, n0, n0 + TokenRun(s, n0) - 1)
       ELSE ""

search_customer(s) ==
    LET Hit(i) == customer_token_at(s, i) # ""
        i == FirstPos(s, Hit)
    IN IF i = 0 THEN "" ELSE customer_token_at(s, i)

\* <kw>\s+(\d+)\s+day at position i of s: the digits, or ""; bounded: a \b
\* stands before kw
num_day_at(s, i, kw, bounded) ==
    LET a == i + Len(kw)
        sp1 == SpaceRun(s, a)
        n == DigitRun(s, a + sp1)
        b == a + sp1 + n
        sp2 == SpaceRun(s, b)
    IN IF /\ Sub(s, i, a - 1) = kw
          /\ bounded => ~IsWordChar(Ch(s, i - 1))
          /\ (kw = "" \/ sp1 >= 1) /\ n >= 1 /\ sp2 >= 1
          /\ Sub(s, b + sp2, b + sp2 + 2) = "day"
       THEN Sub(s, a + sp1, b - 1)
       ELSE ""

\* re.search(r"\bover\s+\d+\s+day", s)
search_over_days(s) == \E i \in 1..Len(s) : num_day_at(s, i, "over", TRUE) # ""

\* re.search(r"older than\s+\d+\s+day", s)
search_older_than_days(s) == \E i \in 1..Len(s) : num_day_at(s, i, "older than", FALSE) # ""

\* re.search(r"(?:over|older than)\s+(\d+)\s+day", s): group 1, or ""
search_threshold_days(s) ==
    LET At(i) == IF num_day_at(s, i, "over", FALSE) # ""
                 THEN num_day_at(s, i, "over", FALSE)
                 ELSE num_day_at(s, i, "older than", FALSE)
        Hit(i) == At(i) # ""
        i == FirstPos(s, Hit)
    IN IF i = 0 THEN "" ELSE At(i)

\* re.search(r"(\d+)\s+day", s): group 1, or ""
search_n_days(s) ==
    LET Hit(i) == IsDigit(Ch(s, i)) /\ num_day_at(s, i, "", FALSE) # ""
        i == FirstPos(s, Hit)
    IN IF i = 0 THEN "" ELSE num_day_at(s, i, "", FALSE)

\* re.sub(r"[?!,\.]", " ", s)
RECURSIVE sub_punctuation_range(_, _, _)
sub_punctuation_range(s, lo, hi) ==
    IF lo > hi THEN ""
    ELSE IF lo = hi THEN (IF Ch(s, lo) \in {"?", "!", ",", "."} THEN " " ELSE Ch(s, lo))
    ELSE sub_punctuation_range(s, lo, (lo + hi) \div 2)
         \o sub_punctuation_range(s, (lo + hi) \div 2 + 1, hi)

sub_punctuation(s) == sub_punctuation_range(s, 1, Len(s))

\* \s+to\s+today at position i of s
to_today_at(s, i) ==
    LET sp1 == SpaceRun(s, i)
        a == i + sp1
        sp2 == SpaceRun(s, a + 2)
        b == a + 2 + sp2
    IN sp1 >= 1 /\ Sub(s, a, a + 1) = "to" /\ sp2 >= 1 /\ Sub(s, b, b + 4) = "today"

\* re.search(r"from\s+(.+?)\s+to\s+today", s): group 1 stripped, or "" when
\* there is no match
search_from_to_today(s) ==
    LET Start(i) == /\ Sub(s, i, i + 3) = "from"
                    /\ SpaceRun(s, i + 4) >= 1
                    /\ \E e \in (i + 6)..Len(s) : to_today_at(s, e)
        i == FirstPos(s, Start)
        End(e) == e >= i + 6 /\ to_today_at(s, e)
        e == FirstPos(s, End)
    IN IF i = 0 THEN "" ELSE strip(Sub(s, i + 5, e - 1))

(***************************************************************************)
(* What pandas reads off the string of a cell does not depend on the       *)
(* state: a cell of an uploaded table carries it in its field f, computed  *)
(* once when the table is built.  A cell a handler makes has no field f,   *)
(* and the same functions are applied to its string when it is read.       *)
(***************************************************************************)
\* pd.to_numeric(s, errors="coerce") and float(s) of a string
numeric_str(s) == to_numeric_str(strip(s))

\* pd.to_datetime of the "[YYYY-MM-DD HH:MM:SS]" stamp of a Status
stamp_of(extracted) == IF extracted.k = "str" THEN to_datetime_str(extracted.s) ELSE NaT

stamp_str(s) == stamp_of(extract_timestamp(s))

\* record_lookup._norm of a string
norm_str(s) == removeChar(upper(strip(s)), " ")

\* priority_tickets.py:30-36: the Status mentions a credit number
credit_evidence_str(s) ==
    AnyIn(upper(s), {"CREDIT NUMBER", "CREDIT NUMBERS", "CREDIT REQUEST NO.:",
                     "CREDIT REQUEST NO", "RTNCM"})

CellFacts(s) ==
    [ upper |-> upper(s),
      strip |-> strip(s),
      upper_strip |-> upper(strip(s)),
      norm |-> norm_str(s),
      numeric |-> numeric_str(s),
      datetime |-> to_datetime_str(s),
      stamp |-> stamp_str(s),
      credit_evidence |-> credit_evidence_str(s) ]

\* a cell as pd.read_csv leaves it in the table
Parsed(c) == IF c.k = "str" THEN c @@ [f |-> CellFacts(c.s)] ELSE c

HasFacts(c) == "f" \in DOMAIN c

(***************************************************************************)
(* The inputs the model draws from: queries, and rows of cells.            *)
(***************************************************************************)
AllCols ==
    {"Ticket Number", "Invoice Number", "Date", "Status", "RTN_CR_No",
     "Customer Number", "Credit Request Total", "Item Number", "Sales Rep",
     "Reason for Credit"}

\* a DataFrame: id 0 is the object the caller holds
Frame(cols, rows) == [id |-> 0, cols |-> cols, rows |-> rows]

Row(ticket, invoice, date, status, rtn, customer, total, item, rep, reason) ==
    [c \in AllCols |->
        Parsed(CASE c = "Ticket Number" -> ticket
                 [] c = "Invoice Number" -> invoice
                 [] c = "Date" -> date
                 [] c = "Status" -> status
                 [] c = "RTN_CR_No" -> rtn
                 [] c = "Customer Number" -> customer
                 [] c = "Credit Request Total" -> total
                 [] c = "Item Number" -> item
                 [] c = "Sales Rep" -> rep
                 [] c = "Reason for Credit" -> reason)]

\* the day the queries are asked
Today == days_from_civil(2025, 11, 20)

\* rows of an uploaded CSV: the scenario row of the specification, and rows
\* with the irregular cells the handlers have to cope with
RowUniverse ==
    { Row(Str("R-040699"), Str("INV14068709"), Str("2025-01-01"), Str("Open"), Str(""),
          Str("YAM01"), Str("250.00"), Str("ITM-1"), Str("Ann"), Str("damaged box")),
      Row(Str("r-048484 "), Str("14068709"), Str("2025-11-10"),
          Str("[2025-11-12 09:30:00] Credit Number issued"), Str("RTNCM0031274"),
          Str("YAM33"), Str("abc"), Str("ITM-2"), Str("Bob"), MissingCell),
      Row(Str("R-12"), MissingCell, Str("n/a"), Str("[2025-10-01 08:00:00] waiting"), Str("NA"),
          Str("ABC"), Str("600.00"), Str("ITM-1"), Str("Ann"), Str("short shipment")) }

MaxRows == 2

\* the column sets of the tables: every column, one column missing, none
ColumnSets ==
    {AllCols, {}} \cup {AllCols \ {c} : c \in {"Ticket Number", "Date", "Status"}}

RowsUpTo(universe, n) == UNION {[1..k -> universe] : k \in 0..n}

Restrict(row, cols) == [c \in cols |-> row[c]]

Tables ==
    {Frame(cols, [i \in 1..Len(rows) |-> Restrict(rows[i], cols)]) :
        <<cols, rows>> \in {cr \in ColumnSets \X RowsUpTo(RowUniverse, MaxRows) :
                               cr[1] = {} => cr[2] = <<>>}}

\* the fourteen examples of the help text
HelpExamples ==
    << "MiniTwin, status on ticket R-048484",
       "MiniTwin, show me all the requests for ticket R-040699",
       "MiniTwin, is ticket R-040699 logged in the system?",
       "MiniTwin, show all tickets for customer YAM in last 30 days",
       "MiniTwin, how many credits did I update from Nov 1st to today?",
       "MiniTwin, how many credits have a credit number?",
       "MiniTwin, what tickets are priority right now?",
       "MiniTwin, show the credit aging summary",
       "MiniTwin, which tickets haven't been updated in 7 days?",
       "MiniTwin, give me a credit overview",
       "MiniTwin, which accounts have the most credits?",
       "MiniTwin, which items have the most credits issued?",
       "MiniTwin, are there any credit trends worth sharing?",
       "MiniTwin, any unusual or suspicious credits lately?" >>

Queries ==
    {HelpExamples[i] : i \in 1..Len(HelpExamples)} \cup
    { "hello",
      "R-040699",
      "R-12",
      "R-048484",
      "is ticket R-040699 logged in the system?",
      "is invoice INV-14068709 on record?",
      "show all tickets for customer YAM",
      "credit overview for customer number abc tickets" }

\* rows for the aging summary: one per boundary of the buckets, as days
\* before Today (0, 7, 8, 15, 16, 30, 31, 60, 61, 90, 91), one dated tomorrow,
\* one undated, and rows that have a credit number or a sentinel for one
AgingRow(date, rtn) ==
    Row(Str("R-100"), Str(""), date, Str("Open"), rtn, Str("ABC"), Str("10.00"),
        Str("ITM-1"), Str("Ann"), Str(""))

AgingDates ==
    {"2025-11-20", "2025-11-13", "2025-11-12", "2025-11-05", "2025-11-04", "2025-10-21",
     "2025-10-20", "2025-09-21", "2025-09-20", "2025-08-22", "2025-08-21", "2025-11-21", "n/a"}

AgingUniverse ==
    {AgingRow(Str(d), Str("")) : d \in AgingDates} \cup
    {AgingRow(Str("2025-11-20"), Str("RTNCM0031274")), AgingRow(Str("2025-08-21"), Str(" na ")),
     AgingRow(Str("2025-11-13"), MissingCell)}

MaxAgingRows == 2

AgingTables ==
    {Frame(AllCols, rows) : rows \in RowsUpTo(AgingUniverse, MaxAgingRows)} \cup
    {Frame(AllCols \ {"RTN_CR_No"}, [i \in 1..Len(rows) |-> Restrict(rows[i], AllCols \ {"RTN_CR_No"})]) :
        rows \in RowsUpTo({AgingRow(Str("2025-11-20"), Str("RTNCM0031274"))}, MaxAgingRows)}

AgingQueries ==
    {"MiniTwin, show the credit aging summary", "show tickets older than 30 days"}

\* rows for the anomaly scan: MaxZeros or fewer credits of $0 dated Today,
\* then MaxExtras or fewer other rows, each different from the others
AnomalyRow(date, total) ==
    Row(Str("R-200"), Str(""), date, Str("Open"), Str(""), Str("ABC"), total,
        Str("ITM-1"), Str("Ann"), Str(""))

AnomalyExtras ==
    {AnomalyRow(Str("2025-11-20"), Str(a)) : a \in {"50", "500", "499.99", "-500", "abc"}} \cup
    {AnomalyRow(Str("2025-08-22"), Str("600")), AnomalyRow(Str("2025-08-21"), Str("100000"))}

MaxZeros == 10
MaxExtras == 2

Distinctly(rows) == \A i, j \in 1..Len(rows) : i # j => rows[i] # rows[j]

ZeroRow == AnomalyRow(Str("2025-11-20"), Str("0"))

AnomalyTables ==
    {Frame(AllCols, [i \in 1..n |-> ZeroRow] \o extras) :
        <<n, extras>> \in (0..MaxZeros) \X {rows \in RowsUpTo(AnomalyExtras, MaxExtras) :
                                               Distinctly(rows)}}

AnomalyQueries == {"MiniTwin, any unusual or suspicious credits lately?"}

\* rows for the update activity: stamps in Status at the first and the last
\* second of the days the windows start on (Nov 1st, seven days ago), on
\* the eve of one, at midnight and in the morning of Today, and no stamp
ActivityRow(ticket, status) ==
    Row(Str(ticket), Str(""), Str("2025-01-01"), Str(status), Str(""), Str("ABC"),
        Str("10.00"), Str("ITM-1"), Str("Ann"), Str(""))

ActivityUniverse ==
    { ActivityRow("R-301", "[2025-11-20 00:00:00] updated"),
      ActivityRow("R-302", "[2025-11-20 09:30:00] updated"),
      ActivityRow("R-303", "[2025-11-01 00:00:00] updated"),
      ActivityRow("R-304", "[2025-11-01 23:59:59] updated"),
      ActivityRow("R-305", "[2025-10-31 23:59:59] updated"),
      ActivityRow("R-306", "[2025-11-13 08:00:00] updated"),
      ActivityRow("R-307", "Open") }

MaxActivityRows == 2

ActivityTables == {Frame(AllCols, rows) : rows \in RowsUpTo(ActivityUniverse, MaxActivityRows)}

ActivityQueries ==
    { "MiniTwin, how many credits did I update from Nov 1st to today?",
      "how many credits did I update in the last 7 days?",
      "how many credits were updated this month?",
      "how many credits did I update?" }

\* rows for the stalled tickets: last updated 3, 10, 12, 14, 15, 30 and 31
\* days before Today, one of them with a credit number, and one never
StalledRow(ticket, status, rtn) ==
    Row(Str(ticket), Str(""), Str("2025-01-01"), Str(status), Str(rtn), Str("ABC"),
        Str("10.00"), Str("ITM-1"), Str("Ann"), Str(""))

StalledUniverse ==
    { StalledRow("R-401", "[2025-11-17 00:00:00] waiting", ""),
      StalledRow("R-402", "[2025-11-10 00:00:00] waiting", ""),
      StalledRow("R-403", "[2025-11-08 00:00:00] waiting", ""),
      StalledRow("R-404", "[2025-11-06 00:00:00] waiting", ""),
      StalledRow("R-405", "[2025-11-05 00:00:00] waiting", ""),
      StalledRow("R-406", "[2025-10-21 00:00:00] waiting", ""),
      StalledRow("R-407", "[2025-10-20 00:00:00] waiting", ""),
      StalledRow("R-408", "[2025-11-08 00:00:00] waiting", "RTNCM0031274"),
      StalledRow("R-409", "Open", "") }

MaxStalledRows == 2

StalledTables == {Frame(AllCols, rows) : rows \in RowsUpTo(StalledUniverse, MaxStalledRows)}

StalledQueries ==
    { "MiniTwin, which tickets haven't been updated in 7 days?",
      "which tickets haven't been updated in 3 days?",
      "which credits had no updates in 14 days?" }

\* rows for the priority tickets: MaxOldRows or fewer copies of an open
\* ticket of January, then MaxPriorityExtras or fewer other rows: dated 14, 15
\* and 16 days before Today, older than the copies, undated, and old rows
\* that have a credit number, a sentinel for one, or the evidence of one in
\* Status
PriorityRow(ticket, date, status, rtn) ==
    Row(Str(ticket), Str(""), Str(date), Str(status), Str(rtn), Str("ABC"),
        Str("10.00"), Str("ITM-1"), Str("Ann"), Str(""))

OldRow == PriorityRow("R-500", "2025-01-01", "Open", "")

PriorityExtras ==
    { PriorityRow("R-501", "2025-11-06", "Open", ""),
      PriorityRow("R-502", "2025-11-05", "Open", ""),
      PriorityRow("R-503", "2025-11-04", "Open", ""),
      PriorityRow("R-504", "2024-12-01", "Open", " na "),
      PriorityRow("R-505", "n/a", "Open", ""),
      PriorityRow("R-506", "2025-02-01", "Open", "RTNCM0031274"),
      PriorityRow("R-507", "2025-02-01", "Credit Number issued", "") }

MaxOldRows == 21
MaxPriorityExtras == 1

PriorityTables ==
    {Frame(AllCols, [i \in 1..n |-> OldRow] \o extras) :
        <<n, extras>> \in (0..MaxOldRows) \X RowsUpTo(PriorityExtras, MaxPriorityExtras)}

PriorityQueries == {"MiniTwin, what tickets are priority right now?"}

\* rows for the credit trends: dated Today and 29, 30, 31, 60 and 61 days
\* before, and one in the morning of the day 31 days before
TrendRow(ticket, date) ==
    Row(Str(ticket), Str(""), Str(date), Str("Open"), Str(""), Str("ABC"),
        Str("10.00"), Str("ITM-1"), Str("Ann"), Str(""))

TrendUniverse ==
    { TrendRow("R-601", "2025-11-20"),
      TrendRow("R-602", "2025-10-22"),
      TrendRow("R-603", "2025-10-21"),
      TrendRow("R-604", "2025-10-20"),
      TrendRow("R-605", "2025-10-20 10:00:00"),
      TrendRow("R-606", "2025-09-21"),
      TrendRow("R-607", "2025-09-20") }

MaxTrendRows == 2

TrendTables == {Frame(AllCols, rows) : rows \in RowsUpTo(TrendUniverse, MaxTrendRows)}

TrendQueries == {"MiniTwin, are there any credit trends worth sharing?"}

\* rows for the rankings of accounts and items: eleven accounts with one
\* credit each, and rows with a credit number, with a blank or missing one,
\* with a total of zero, an unparsable total, and a ticket entered twice
TopRow(ticket, customer, total, item, rtn) ==
    Row(Str(ticket), Str(""), Str("2025-11-01"), Str("Open"), rtn, Str(customer),
        Str(total), Str(item), Str("Ann"), Str(""))

SingleCredits ==
    << TopRow("R-711", "C01", "10.00", "I01", Str("RTNCM0000711")),
       TopRow("R-712", "C02", "20.00", "I02", Str("RTNCM0000712")),
       TopRow("R-713", "C03", "30.00", "I03", Str("RTNCM0000713")),
       TopRow("R-714", "C04", "40.00", "I04", Str("RTNCM0000714")),
       TopRow("R-715", "C05", "50.00", "I05", Str("RTNCM0000715")),
       TopRow("R-716", "C06", "60.00", "I06", Str("RTNCM0000716")),
       TopRow("R-717", "C07", "70.00", "I07", Str("RTNCM0000717")),
       TopRow("R-718", "C08", "80.00", "I08", Str("RTNCM0000718")),
       TopRow("R-719", "C09", "90.00", "I09", Str("RTNCM0000719")),
       TopRow("R-720", "C10", "90.00", "I10", Str("RTNCM0000720")),
       TopRow("R-721", "C11", "110.00", "I11", Str("RTNCM0000721")) >>

TopExtras ==
    { TopRow("R-701", "YAM01", "250.00", "ITM-1", Str("RTNCM0000701")),
      TopRow("R-701", "YAM01", "100.00", "ITM-2", Str("RTNCM0000701")),
      TopRow("R-702", "ABC", "90.00", "I09", Str("")),
      TopRow("R-703", "ABC", "0", "ITM-2", Str("RTNCM0000703")),
      TopRow("R-704", "C11", "abc", "ITM-1", Str("RTNCM0000704")),
      TopRow("R-705", "YAM01", "50.00", "ITM-1", MissingCell),
      TopRow("R-706", "C01", "80.00", "ITM-2", Str("   ")) }

MaxTopExtras == 2

\* with every column, without the credit numbers, without the tickets
TopColumnSets == {AllCols, AllCols \ {"RTN_CR_No"}, AllCols \ {"Ticket Number"}}

\* the tables of a few rows with every column, and for each set of columns
\* the tables of at most one such row after none or all of the single credits
TopTables ==
    {Frame(AllCols, rows) : rows \in RowsUpTo(TopExtras, MaxTopExtras)} \cup
    {Frame(cols, [i \in 1..Len(rows) |-> Restrict(rows[i], cols)]) :
        <<cols, rows>> \in TopColumnSets \X
            {base \o extras : <<base, extras>> \in
                {<<>>, SingleCredits} \X RowsUpTo(TopExtras, 1)}}

TopQueries ==
    { "MiniTwin, which accounts have the most credits?",
      "which accounts have the most credits issued?",
      "MiniTwin, which items have the most credits issued?" }

(***************************************************************************)
(* Numbers and text formatting.                                            *)
(***************************************************************************)
RECURSIVE IntStr(_)
IntStr(n) == IF n < 10 THEN Ch(DigitChars, n + 1) ELSE IntStr(n \div 10) \o Ch(DigitChars, (n % 10) + 1)

\* the digits of n with a comma between groups of three: format spec ","
RECURSIVE CommaStr(_)
CommaStr(n) ==
    IF n < 1000 THEN IntStr(n)
    ELSE LET r == n % 1000
         IN CommaStr(n \div 1000) \o ","
            \o (IF r < 10 THEN "00" ELSE IF r < 100 THEN "0" ELSE "") \o IntStr(r)

TwoDigits(n) == (IF n < 10 THEN "0" ELSE "") \o IntStr(n)

\* a format that leaves the cents out
money_str_whole(c) == "$" \o (IF c < 0 THEN "-" ELSE "") \o CommaStr((IF c < 0 THEN -c ELSE c) \div 100)

\* f"${val:,.2f}" of a float held in cents
money_str(c) ==
    LET a == IF c < 0 THEN -c ELSE c
    IN "$" \o (IF c < 0 THEN "-" ELSE "") \o CommaStr(a \div 100) \o "." \o TwoDigits(a % 100)

\* str() of a float held in cents: 250.0, 499.99, 0.5
float_str(c) ==
    LET a == IF c < 0 THEN -c ELSE c
        f == a % 100
    IN (IF c < 0 THEN "-" ELSE "") \o IntStr(a \div 100) \o "."
       \o (IF f % 10 = 0 THEN IntStr(f \div 10) ELSE TwoDigits(f))

\* str(x) of a cell
str_of(c) ==
    IF c.k = "str" THEN c.s
    ELSE IF c.k = "num" THEN float_str(c.d)
    ELSE IF c.k = "nan" THEN "nan"
    ELSE IF c.k = "nat" THEN "NaT"
    ELSE IF c.k = "none" THEN "None"
    ELSE "<Timestamp>"

\* Series.astype(str) of a cell, then .str.upper(), .str.strip(), both
str_upper(c) == IF HasFacts(c) THEN c.f.upper ELSE upper(str_of(c))
str_strip(c) == IF HasFacts(c) THEN c.f.strip ELSE strip(str_of(c))
str_upper_strip(c) == IF HasFacts(c) THEN c.f.upper_strip ELSE upper(strip(str_of(c)))

\* the number, the Timestamp, the stamp and the credit evidence of str(x)
str_numeric(c) == IF HasFacts(c) THEN c.f.numeric ELSE numeric_str(str_of(c))
str_datetime(c) == IF HasFacts(c) THEN c.f.datetime ELSE to_datetime_str(str_of(c))
str_stamp(c) == IF HasFacts(c) THEN c.f.stamp ELSE stamp_str(str_of(c))
str_credit_evidence(c) ==
    IF HasFacts(c) THEN c.f.credit_evidence ELSE credit_evidence_str(str_of(c))

\* float(x) of a cell: a number, NaN, or "error" (TypeError / ValueError)
float_str_of(number, text) ==
    IF number.k = "num" THEN number
    ELSE IF text = "NAN" THEN NaN
    ELSE [k |-> "error", s |-> "", d |-> 0, t |-> 0]

float_of(c) ==
    IF c.k = "num" THEN c
    ELSE IF c.k = "nan" THEN NaN
    ELSE IF c.k = "str" THEN float_str_of(str_numeric(c), str_upper_strip(c))
    ELSE [k |-> "error", s |-> "", d |-> 0, t |-> 0]

\* skybar.utils.formatting.format_money
money_of(val, x) ==
    IF val.k = "error" THEN str_of(x)
    ELSE IF val.k = "nan" THEN "$nan"
    ELSE money_str(val.d)

format_money(x) == money_of(float_of(x), x)

\* skybar.utils.matching.normalize
normalize(value) == IF value.k = "none" THEN "" ELSE str_upper_strip(value)

\* pd.to_numeric(cell, errors="coerce")
to_numeric(c) ==
    IF c.k = "num" THEN c
    ELSE IF c.k = "str" THEN str_numeric(c)
    ELSE NaN

\* pd.to_datetime(cell, errors="coerce"); a float counts nanoseconds from the epoch
to_datetime(c) ==
    IF c.k = "ts" THEN c
    ELSE IF c.k = "str" THEN str_datetime(c)
    ELSE IF c.k = "num" THEN Ts(0, 0)
    ELSE NaT

\* the order of str values (code points of the characters the tables use)
CodePoints == " !#$%&()*+,-./0123456789:;<=>?@ABCDEFGHIJKLMNOPQRSTUVWXYZ[]^_abcdefghijklmnopqrstuvwxyz{|}~"

RECURSIVE StrLess(_, _)
StrLess(a, b) ==
    IF b = "" THEN FALSE
    ELSE IF a = "" THEN TRUE
    ELSE IF Ch(a, 1) = Ch(b, 1) THEN StrLess(Sub(a, 2, Len(a)), Sub(b, 2, Len(b)))
    ELSE IndexIn(Ch(a, 1), CodePoints) < IndexIn(Ch(b, 1), CodePoints)

(***************************************************************************)
(* Sequences and Series.                                                   *)
(***************************************************************************)
\* the sum of xs[lo..hi], by halves
RECURSIVE SumRange(_, _, _)
SumRange(xs, lo, hi) ==
    IF lo > hi THEN 0
    ELSE IF lo = hi THEN xs[lo]
    ELSE SumRange(xs, lo, (lo + hi) \div 2) + SumRange(xs, (lo + hi) \div 2 + 1, hi)

SumSeq(xs) == SumRange(xs, 1, Len(xs))

\* the indexes i, in increasing order, at which mask[i] holds: frame[mask]
Where(mask) ==
    LET held == {i \in 1..Len(mask) : mask[i]}
    IN [j \in 1..Cardinality(held) |->
           CHOOSE i \in held : Cardinality({k \in held : k < i}) = j - 1]

Pick(xs, idx) == [j \in 1..Len(idx) |-> xs[idx[j]]]

\* a head that keeps every element
head_all(xs, n) == xs

\* Series.head(n)
head(xs, n) == SubSeq(xs, 1, IF Len(xs) < n THEN Len(xs) ELSE n)

\* Series.sum() of numbers, NaN skipped
sum_skipna(cells) == SumSeq([i \in 1..Len(cells) |-> IF cells[i].k = "num" THEN cells[i].d ELSE 0])

\* a stable sort of the indexes 1..Len(keys) by integer key
RECURSIVE InsertSorted(_, _, _)
InsertSorted(sorted, i, keys) ==
    IF sorted = <<>> THEN <<i>>
    ELSE IF keys[i] < keys[Head(sorted)] THEN <<i>> \o sorted
    ELSE <<Head(sorted)>> \o InsertSorted(Tail(sorted), i, keys)

RECURSIVE ArgSortFrom(_, _)
ArgSortFrom(keys, n) ==
    IF n = 0 THEN <<>> ELSE InsertSorted(ArgSortFrom(keys, n - 1), n, keys)

Reverse(xs) == [i \in 1..Len(xs) |-> xs[Len(xs) + 1 - i]]

\* an argsort that leaves the entries in their order
argsort_unsorted(keys, isnull, ascending) == [i \in 1..Len(keys) |-> i]

\* pandas' nargsort of integer keys, the null entries (isnull[i]) last: the
\* sort is stable, and a descending sort reverses, sorts and reverses back
argsort(keys, isnull, ascending) ==
    LET n == Len(keys)
        nonnull == Where([i \in 1..n |-> ~isnull[i]])
        nulls == Where(isnull)
        ks == [j \in 1..Len(nonnull) |-> keys[nonnull[j]]]
        asc == Pick(nonnull, ArgSortFrom(ks, Len(ks)))
        rks == Reverse(ks)
        desc == Reverse(Pick(Reverse(nonnull), ArgSortFrom(rks, Len(rks))))
    IN (IF ascending THEN asc ELSE desc) \o nulls

\* the sort key of a column of cells: Timestamps by time, numbers by value,
\* strings by their rank among the column's strings
sort_keys(cells) ==
    [i \in 1..Len(cells) |->
        IF cells[i].k = "ts" THEN cells[i].d * 86400 + cells[i].t
        ELSE IF cells[i].k \in {"num", "count"} THEN cells[i].d
        ELSE IF cells[i].k = "str"
             THEN Cardinality({s \in {cells[j].s : j \in {j \in 1..Len(cells) : cells[j].k = "str"}} :
                                  StrLess(s, cells[i].s)})
        ELSE 0]

\* comparing a str with a Timestamp or a float raises TypeError
sortable(cells) ==
    Cardinality({cells[i].k : i \in {i \in 1..Len(cells) : notna(cells[i])}}) <= 1

(***************************************************************************)
(* DataFrames.  id tells the object: 0 is the caller's table, 1 any frame  *)
(* a handler made.  Assigning a column changes the object in place; copy,  *)
(* a boolean index, dropna and sort_values make a new object.              *)
(***************************************************************************)
\* df.copy() (lines such as ticket_requests.py:29)
\* a copy that is the same object as its source
copy_alias(f) == f

copy(f) == [f EXCEPT !.id = 1]

\* frame[col] as a sequence of cells
Col(f, c) == [i \in 1..Len(f.rows) |-> f.rows[i][c]]

\* frame[col] = series
SetCol(f, c, series) ==
    [f EXCEPT !.cols = f.cols \cup {c},
              !.rows = [i \in 1..Len(f.rows) |->
                           [x \in f.cols \cup {c} |-> IF x = c THEN series[i] ELSE f.rows[i][x]]]]

\* frame[mask]
Filter(f, mask) == [id |-> 1, cols |-> f.cols, rows |-> Pick(f.rows, Where(mask))]

\* frame.iloc[idx]
Take(f, idx) == [id |-> 1, cols |-> f.cols, rows |-> Pick(f.rows, idx)]

\* frame.sort_values(col, ascending=...)
sort_values(f, c, ascending) ==
    LET cells == Col(f, c)
    IN Take(f, argsort(sort_keys(cells), [i \in 1..Len(cells) |-> isna(cells[i])], ascending))

\* row.get(col, default)
get(row, c, default) == IF c \in DOMAIN row THEN row[c] ELSE default

\* the caller's table after a handler whose in-place assignments ended in w
CallerFrame(df0, w) == IF w.id = 0 THEN w ELSE df0

\* Series.astype(str) of a cell
astype_str(c) == IF c.k = "str" THEN c ELSE Str(str_of(c))

(***************************************************************************)
(* What a handler returns: None, a text, or an exception; with it, the     *)
(* caller's table as the handler leaves it.                                *)
(***************************************************************************)
Line(tag, vals) == [tag |-> tag, v |-> vals]
Blank == Line("", <<>>)

Declines(f) == [kind |-> "none", text |-> <<>>, df |-> f]
Answers(lines, f) == [kind |-> "text", text |-> lines, df |-> f]
Raises(exc, f) == [kind |-> "raise", text |-> <<Line(exc, <<>>)>>, df |-> f]

\* "\n".join(lines).strip() == ""
IsBlankText(lines) == \A i \in 1..Len(lines) : lines[i] = Blank

(***************************************************************************)
(* What each handler reads off the query alone.                            *)
(***************************************************************************)
\* str.replace(old, "")
RECURSIVE remove(_, _)
remove(s, old) ==
    IF Len(s) < Len(old) THEN s
    ELSE IF Sub(s, 1, Len(old)) = old THEN remove(Sub(s, Len(old) + 1, Len(s)), old)
    ELSE Ch(s, 1) \o remove(Sub(s, 2, Len(s)), old)

\* the elements of xs in order, each once: the insertions into a set
RECURSIVE Distinct(_)
Distinct(xs) ==
    IF xs = <<>> THEN <<>>
    ELSE LET front == Distinct(SubSeq(xs, 1, Len(xs) - 1))
         IN IF \E i \in 1..Len(front) : front[i] = xs[Len(xs)]
            THEN front ELSE Append(front, xs[Len(xs)])

\* record_lookup._extract_ids, before list(ids): the ids in insertion order
extract_ids(q) ==
    LET tickets == findall_ticket(q, 1, 3, TRUE)
        invoices == findall_invoice(q, 1)
        numbers == findall_number(q, 1)
    IN Distinct([i \in 1..Len(tickets) |-> upper(tickets[i])]
                \o [i \in 1..Len(invoices) |-> removeChar(upper(invoices[i]), "-")]
                \o numbers)

MonthNames == <<"jan", "feb", "mar", "apr", "may", "jun", "jul", "aug", "sep", "oct", "nov", "dec">>

\* dateutil.parser.parse(raw, fuzzy=True), for the phrases "<month> <day>"
\* with an optional st/nd/rd/th: the month and the day, or month 0 (ParserError)
dateutil_month_day(raw) ==
    LET sp == IF \E i \in 1..Len(raw) : Ch(raw, i) = " "
              THEN CHOOSE i \in 1..Len(raw) : Ch(raw, i) = " " /\ \A j \in 1..(i - 1) : Ch(raw, j) # " "
              ELSE 0
        word == Sub(raw, 1, sp - 1)
        rest == strip(Sub(raw, sp + 1, Len(raw)))
        n == DigitRun(rest, 1)
        suffix == Sub(rest, n + 1, Len(rest))
        m == IF \E i \in 1..12 : MonthNames[i] = Sub(word, 1, 3)
             THEN CHOOSE i \in 1..12 : MonthNames[i] = Sub(word, 1, 3) ELSE 0
    IN IF sp > 0 /\ m > 0 /\ n \in {1, 2} /\ suffix \in {"", "st", "nd", "rd", "th"}
          /\ ParseInt(Sub(rest, 1, n)) \in 1..31
       THEN [m |-> m, d |-> ParseInt(Sub(rest, 1, n))]
       ELSE [m |-> 0, d |-> 0]

QueryFacts(q) ==
    Let([q_low \in {lower(q)} |->
      Let([q_clean \in {sub_punctuation(q_low)} |->
        Let([matches \in {findall_ticket(q, 1, 3, FALSE)} |->
          Let([first \in {findall_ticket(q, 1, 1, FALSE)} |->
            LET In(k) == Contains(q_low, k)
            IN [ q_low |-> q_low,
                 \* ticket_requests.py:13-23
                 tr_trigger |-> In("ticket") \/ In("r-"),
                 ticket_ids |-> [i \in 1..Len(matches) |-> strip(upper(matches[i]))],
                 \* ticket_status.py:19-23
                 ticket |-> IF first = <<>> THEN "" ELSE upper(first[1]),
                 \* record_lookup.py:53-63, 74
                 rl_keyword |-> AnyIn(q_low, {"logged", "in the system", "on record", "on file",
                                              "do we have", "exist"}),
                 rl_topic |-> In("ticket") \/ In("invoice") \/ In("credit"),
                 ids |-> extract_ids(q),
                 \* customer_tickets.py:19-33, 50-55
                 ct_trigger |-> In("customer") /\ In("ticket"),
                 m_cust |-> search_customer(q),
                 cust_token |-> upper(strip(search_customer(q))),
                 ct_days |-> IF In("last 15") THEN 15 ELSE IF In("last 30") THEN 30 ELSE 0,
                 \* credit_activity.py:23-66, 79-81
                 ca_trigger |-> (In("credit") \/ In("credits")) /\ (In("update") \/ In("updated")),
                 raw_start |-> search_from_to_today(q_clean),
                 from_date |-> dateutil_month_day(search_from_to_today(q_clean)),
                 relative |-> IF AnyIn(q_clean, {"last 7", "last seven", "last 7 days", "last week"})
                              THEN "week"
                              ELSE IF AnyIn(q_clean, {"last 30", "last thirty", "last 30 days", "last month"})
                              THEN "month"
                              ELSE IF Contains(q_clean, "this month") THEN "this month"
                              ELSE "",
                 \* credit_numbers.py:18-23
                 rtn_trigger |-> In("credit number") \/ In("rtn_cr_no") \/ (In("rtn") /\ In("credit")),
                 \* priority_tickets.py:64-65
                 pr_trigger |-> In("priority") /\ In("ticket"),
                 \* credit_aging.py:37-52
                 ag_trigger |-> In("aging") \/ In("ageing") \/ search_over_days(q_low)
                                \/ search_older_than_days(q_low),
                 ag_topic |-> In("credit") \/ In("ticket"),
                 highlight_threshold |-> IF search_threshold_days(q_low) = "" THEN 60
                                         ELSE ParseInt(search_threshold_days(q_low)),
                 \* stalled_tickets.py:58-74 (the keyword with a typographic apostrophe
                 \* cannot occur in the ASCII queries of the model)
                 st_keyword |-> AnyIn(q_low, {"stalled", "no recent update", "no updates", "not updated",
                                              "haven't been updated", "no movement"}),
                 st_topic |-> In("ticket") \/ In("credit"),
                 stalled_days |-> IF search_n_days(q_low) = "" THEN 7 ELSE ParseInt(search_n_days(q_low)),
                 \* overall_summary.py:19-21
                 os_trigger |-> AnyIn(q_low, {"summary", "overview", "picture", "status",
                                              "how are credits", "credit overview"}),
                 \* top_accounts.py:32-37, 63 and top_items.py:32-37, 61
                 ta_trigger |-> /\ AnyIn(q_low, {"account", "accounts", "customer", "customers"})
                                /\ (In("credit") \/ In("credits"))
                                /\ AnyIn(q_low, {"most", "top", "highest", "biggest"}),
                 ti_trigger |-> /\ AnyIn(q_low, {"item", "items", "sku", "product", "products"})
                                /\ (In("credit") \/ In("credits"))
                                /\ AnyIn(q_low, {"most", "top", "highest", "biggest"}),
                 issued |-> AnyIn(q_low, {"issued", "with credit number", "have credit numbers"}),
                 \* credit_trends.py:25-36
                 trend_trigger |-> AnyIn(q_low, {"trend", "pattern", "insight", "what's happening",
                                                 "whats happening"}),
                 trend_topic |-> In("credit") \/ In("ticket"),
                 \* credit_anomalies.py:25-36
                 an_trigger |-> AnyIn(q_low, {"anomal", "unusual", "suspicious", "outlier", "weird"}),
                 an_topic |-> In("credit") \/ In("ticket") ]])])])])

AllQueries ==
    Queries \cup AgingQueries \cup AnomalyQueries \cup ActivityQueries \cup StalledQueries \cup TopQueries

QueryMemo == [q \in AllQueries |-> QueryFacts(q)]

Q(q) == IF q \in AllQueries THEN QueryMemo[q] ELSE QueryFacts(q)

(***************************************************************************)
(* The intent handlers.  Each takes the query, as the record QueryFacts    *)
(* of what the handlers read off its text, and the caller's table, and     *)
(* gives what it returns (kind, text) and the caller's table afterwards    *)
(* (df).                                                                   *)
(***************************************************************************)
\* str(value).replace("\n", " ").strip(), cut to limit characters
snippet(value, limit) ==
    LET text == strip(str_of(value))
    IN IF Len(text) > limit THEN Sub(text, 1, limit - 3) \o "..." ELSE text

\* d.strftime("%Y-%m-%d") if isinstance(d, pd.Timestamp) else <otherwise>
date_or(d, otherwise) == IF d.k = "ts" THEN d ELSE Str(otherwise)

\* the module-level LAST_TICKET_LOOKUP: unbound until the first assignment
Unbound == [state |-> "unbound", rows |-> <<>>]
NoLookup == [state |-> "None", rows |-> <<>>]
Lookup(f) == [state |-> "frame", rows |-> f.rows]

\* ticket_requests.py:32-44: the loop over ticket_ids, from index i on, as
\* (lines, LAST_TICKET_LOOKUP)
RECURSIVE ticket_requests_loop(_, _, _, _)
ticket_requests_loop(ticket_ids, i, df_norm, last) ==
    IF i > Len(ticket_ids) THEN [lines |-> <<>>, last |-> last]
    ELSE LET tid == ticket_ids[i]
             column == Col(df_norm, "Ticket Number")
             subset == Filter(df_norm, [j \in 1..Len(column) |-> column[j] = Str(tid)])
             rest == ticket_requests_loop(ticket_ids, i + 1, df_norm,
                                          IF subset.rows = <<>> THEN last ELSE Lookup(copy(subset)))
         IN IF subset.rows = <<>>
            THEN [lines |-> <<Line("No records found for", <<Str(tid)>>)>> \o rest.lines,
                  last |-> rest.last]
            ELSE [lines |-> <<Line("Found record(s) for ticket", <<Num(Len(subset.rows)), Str(tid)>>)>>
                            \o rest.lines,
                  last |-> rest.last]

\* ticket_requests.py:17-51: what follows the keyword test
ticket_requests_lookup(q, df_, last) ==
    IF q.ticket_ids = <<>> THEN Declines(df_) @@ [last |-> last]
    ELSE IF "Ticket Number" \notin df_.cols
    THEN Answers(<<Line("I can't find ticket details because the Ticket Number column is missing.",
                        <<>>)>>, df_) @@ [last |-> last]
    ELSE Let([copied \in {copy(df_)} |->
           Let([column \in {Col(copied, "Ticket Number")} |->
             Let([df_norm \in {SetCol(copied, "Ticket Number",
                                      [i \in 1..Len(column) |->
                                          Str(str_upper_strip(column[i]))])} |->
               Let([loop \in {ticket_requests_loop(q.ticket_ids, 1, df_norm, NoLookup)} |->
                 Answers(loop.lines, CallerFrame(df_, df_norm)) @@ [last |-> loop.last]])])])])

\* intent_ticket_requests with the keyword test reduced to "ticket"
intent_ticket_requests_keyword_only(q, df_, last) ==
    IF ~Contains(q.q_low, "ticket") THEN Declines(df_) @@ [last |-> last]
    ELSE ticket_requests_lookup(q, df_, last)

\* intent_ticket_requests searching the rows of the previous lookup, when
\* there is one, instead of the table
intent_ticket_requests_cached(q, df_, last) ==
    IF ~q.tr_trigger THEN Declines(df_) @@ [last |-> last]
    ELSE IF last.state = "frame"
    THEN [ticket_requests_lookup(q, Frame(df_.cols, last.rows), last) EXCEPT !.df = df_]
    ELSE ticket_requests_lookup(q, df_, last)

\* ticket_requests.py:5-51
intent_ticket_requests(q, df_, last) ==
    IF ~q.tr_trigger THEN Declines(df_) @@ [last |-> last]
    ELSE ticket_requests_lookup(q, df_, last)

\* ticket_status.py:57-75: the line of one row
ticket_status_entry(r) ==
    Let([amount \in {get(r, "Credit Request Total", None)} |->
      LET amt_str == IF float_of(amount).k = "error" THEN "N/A" ELSE format_money(float_of(amount))
      IN Line("entry",
              <<date_or(get(r, "Date", None), str_of(get(r, "Date", None))),
                get(r, "Invoice Number", Str("N/A")), get(r, "Item Number", Str("N/A")),
                Str(amt_str), get(r, "Status", Str("N/A")),
                Str(snippet(get(r, "Reason for Credit", Str("")), 120))>>)])

intent_ticket_status(q, df_) ==
    IF q.ticket = "" THEN Declines(df_)
    ELSE IF "Ticket Number" \notin df_.cols THEN Raises("KeyError", df_)
    ELSE LET ticket == q.ticket
         IN Let([column \in {Col(df_, "Ticket Number")} |->
              LET mask == [i \in 1..Len(column) |-> str_upper(column[i]) = ticket]
              IN Let([matching \in {copy(Filter(df_, mask))} |->
                   IF matching.rows = <<>>
                   THEN Answers(<<Line("I couldn't find any records for ticket", <<Str(ticket)>>)>>, df_)
                   ELSE IF "Date" \in matching.cols /\ ~sortable(Col(matching, "Date"))
                   THEN Raises("TypeError", df_)
                   ELSE Let([all_rows \in {IF "Date" \in matching.cols
                                           THEN sort_values(matching, "Date", TRUE) ELSE matching} |->
                          LET first == all_rows.rows[1]
                              total_sum == IF "Credit Request Total" \in all_rows.cols
                                           THEN Num(sum_skipna([i \in 1..Len(all_rows.rows) |->
                                                    to_numeric(all_rows.rows[i]["Credit Request Total"])]))
                                           ELSE None
                          IN Let([subset \in {head(all_rows.rows, 20)} |->
                               Answers(
                                 << Line("Details for ticket", <<Str(ticket)>>),
                                    Line("Customer", <<get(first, "Customer Number", Str("N/A"))>>),
                                    Line("First Date Seen", <<date_or(get(first, "Date", None), "Unknown date")>>),
                                    Line("Total credit across all related entries",
                                         <<Str(format_money(total_sum))>>),
                                    Blank,
                                    Line("All matching entries (up to 20):", <<>>) >>
                                 \o [i \in 1..Len(subset) |-> ticket_status_entry(subset[i])],
                                 df_)])])])])

\* record_lookup._norm of one cell
norm_id(c) == IF HasFacts(c) THEN c.f.norm ELSE norm_str(str_of(c))

\* record_lookup.py:126-150: the line of one sample row
record_lookup_sample(r) ==
    LET Shown(c) == IF notna(c) /\ strip(str_of(c)) # "" THEN c ELSE Str("")
    IN Line("sample",
            << Shown(get(r, "Ticket Number", Str(""))), Shown(get(r, "Invoice Number", Str(""))),
               Shown(get(r, "Date", Str(""))), Shown(get(r, "Status", Str(""))),
               Str(snippet(get(r, "Reason for Credit", Str("")), 90)) >>)

\* record_lookup.py:87-152: the lines of one id
record_lookup_id(rid, df_) ==
    LET has_ticket_col == "Ticket Number" \in df_.cols
        has_invoice_col == "Invoice Number" \in df_.cols
        rid_clean == remove(remove(rid, "INV"), "INV-")
        mask_all == [i \in 1..Len(df_.rows) |->
                        \/ has_ticket_col /\ norm_id(df_.rows[i]["Ticket Number"]) = rid
                        \/ has_invoice_col /\ norm_id(df_.rows[i]["Invoice Number"]) \in {rid, rid_clean}]
    IN Let([found_df \in {copy(Filter(df_, mask_all))} |->
         LET count == Len(found_df.rows)
         IN IF count = 0 THEN <<Line("not found in this dataset", <<Str(rid)>>)>>
            ELSE LET total_amt == sum_skipna([i \in 1..count |-> to_numeric(found_df.rows[i]["Credit Request Total"])])
                 IN Let([sample \in {head(found_df.rows, 3)} |->
                      <<Line("found record(s)", <<Str(rid), Num(count)>>)>>
                      \o (IF "Credit Request Total" \in found_df.cols
                          THEN <<Line("Sum of Credit Request Total", <<Str(format_money(Num(total_amt)))>>)>>
                          ELSE <<>>)
                      \o [i \in 1..Len(sample) |-> record_lookup_sample(sample[i])]
                      \o <<Blank>>])])

RECURSIVE record_lookup_loop(_, _, _)
record_lookup_loop(ids, i, df_) ==
    IF i > Len(ids) THEN <<>>
    ELSE record_lookup_id(ids[i], df_) \o record_lookup_loop(ids, i + 1, df_)

\* list(ids) of a set of str: the order follows the hashes of the process
list_of_set(ids, seed) == IF seed = 0 THEN ids ELSE Reverse(ids)

intent_record_lookup(q, df_, seed) ==
    IF ~q.rl_keyword THEN Declines(df_)
    ELSE IF ~q.rl_topic THEN Declines(df_)
    ELSE IF "Ticket Number" \notin df_.cols /\ "Invoice Number" \notin df_.cols
    THEN Answers(<<Line("I can't check whether a record is logged because I don't see Ticket Number or Invoice Number columns in the dataset.", <<>>)>>, df_)
    ELSE IF q.ids = <<>> THEN Declines(df_)
    ELSE Answers(<<Line("Record lookup - is this ticket / invoice logged?", <<>>), Blank>>
                 \o record_lookup_loop(list_of_set(q.ids, seed), 1, df_),
                 df_)

\* frame[col] = coerce_date(frame[col])
coerce_date(f, c) == SetCol(f, c, [i \in 1..Len(f.rows) |-> to_datetime(f.rows[i][c])])

\* Series.between(left, right) of one Timestamp cell, both ends included
between(c, left, right) ==
    /\ c.k = "ts"
    /\ c.d * 86400 + c.t >= left * 86400
    /\ c.d * 86400 + c.t <= right * 86400

\* customer_tickets.py:109-120: the line of one row
customer_tickets_entry(r) ==
    Line("entry", << date_or(get(r, "Date", None), "Unknown date"),
                     get(r, "Customer Number", Str("N/A")), get(r, "Ticket Number", Str("N/A")),
                     get(r, "Status", Str("N/A")),
                     Str(format_money(get(r, "Credit Request Total", None))) >>)

\* a mask that takes the token for the whole customer number
customer_mask_exact(value, cust_token) == value = cust_token

\* customer_tickets.py:45-47: prefix_mask | contains_mask of one value
customer_mask(value, cust_token) ==
    startswith(value, cust_token) \/ Contains(value, cust_token)

intent_customer_tickets(q, df_, now) ==
    IF ~q.ct_trigger THEN Declines(df_)
    ELSE IF q.m_cust = ""
    THEN Answers(<<Line("I heard 'customer', but I couldn't detect which one.", <<>>)>>, df_)
    ELSE IF "Customer Number" \notin df_.cols
    THEN Answers(<<Line("I can't find a Customer Number column in the dataset.", <<>>)>>, df_)
    ELSE LET cust_token == q.cust_token
             days == q.ct_days
         IN Let([dv \in {IF "Date" \in df_.cols THEN coerce_date(copy(df_), "Date") ELSE copy(df_)} |->
              Let([caller \in {CallerFrame(df_, dv)} |->
                Let([cust_series \in {[i \in 1..Len(dv.rows) |->
                                          str_upper_strip(dv.rows[i]["Customer Number"])]} |->
                  Let([cust_mask \in {[i \in 1..Len(dv.rows) |->
                                          customer_mask(cust_series[i], cust_token)]} |->
                    Let([subset \in {IF days # 0 /\ "Date" \in dv.cols
                                     THEN copy(Filter(dv, [i \in 1..Len(dv.rows) |->
                                              cust_mask[i] /\ between(dv.rows[i]["Date"], now - days, now)]))
                                     ELSE copy(Filter(dv, cust_mask))} |->
                      IF subset.rows = <<>>
                      THEN Answers(<<Line("I don't see any tickets for customers matching",
                                          <<Str(cust_token), Count(days)>>)>>, caller)
                      ELSE IF "Date" \notin subset.cols THEN Raises("KeyError", caller)
                      ELSE IF "Credit Request Total" \notin subset.cols THEN Raises("KeyError", caller)
                      ELSE Let([sorted \in {sort_values(subset, "Date", FALSE)} |->
                             LET total_credits == sum_skipna([i \in 1..Len(sorted.rows) |->
                                                      to_numeric(sorted.rows[i]["Credit Request Total"])])
                             IN Let([distinct_customers \in {Distinct([i \in 1..Len(sorted.rows) |->
                                                                          Str(str_upper(sorted.rows[i]["Customer Number"]))])} |->
                                  Let([sample \in {head(sorted.rows, 15)} |->
                                    Answers(
                                      << Line("Here's what I found for customers matching",
                                              <<Str(cust_token), Count(days)>>),
                                         Line("Matching customer numbers", head(distinct_customers, 10)
                                              \o (IF Len(distinct_customers) > 10
                                                  THEN <<Count(Len(distinct_customers) - 10)>> ELSE <<>>)),
                                         Line("Tickets", <<Count(Len(sorted.rows))>>),
                                         Line("Sum of Credit Request Total", <<Str(format_money(Num(total_credits)))>>),
                                         Blank,
                                         Line("Sample of recent tickets (most recent first):", <<>>) >>
                                      \o [i \in 1..Len(sample) |-> customer_tickets_entry(sample[i])]
                                      \o (IF Len(sorted.rows) > 15
                                          THEN <<Line("more ticket(s)", <<Count(Len(sorted.rows) - 15)>>)>> ELSE <<>>),
                                      caller)])])])])])])])])

\* a window that falls back to the last 30 days
get_date_window_default(q, now) == now - 30

\* credit_activity._get_date_window: the start day, or -1 for None
get_date_window(q, now) ==
    LET from == q.from_date
    IN Let([explicit \in {IF q.raw_start # "" /\ from.m > 0
                             /\ from.d <= DaysInMonth(year_of(now), from.m)
                          THEN days_from_civil(year_of(now), from.m, from.d) ELSE -1} |->
         IF explicit >= 0 THEN explicit
         ELSE IF q.relative = "week" THEN now - 7
         ELSE IF q.relative = "month" THEN now - 30
         ELSE IF q.relative = "this month" THEN month_start(now)
         ELSE -1])

\* credit_activity._ensure_update_timestamp, for a table that has Status
ensure_update_timestamp(dv0) ==
    Let([dv \in {copy(dv0)} |->
      Let([status \in {SetCol(dv, "Status", [i \in 1..Len(dv.rows) |->
                                                astype_str(dv.rows[i]["Status"])])} |->
        SetCol(status, "Update Timestamp",
               [i \in 1..Len(status.rows) |-> str_stamp(status.rows[i]["Status"])])])])

intent_credit_activity(q, df_, now) ==
    IF ~q.ca_trigger THEN Declines(df_)
    ELSE IF get_date_window(q, now) < 0 THEN Declines(df_)
    ELSE IF "Status" \notin df_.cols THEN Raises("AttributeError", df_)
    ELSE Let([start \in {get_date_window(q, now)} |->
           Let([dv \in {ensure_update_timestamp(df_)} |->
             Let([caller \in {CallerFrame(df_, dv)} |->
               Let([subset \in {copy(Filter(dv, [i \in 1..Len(dv.rows) |->
                                                    between(dv.rows[i]["Update Timestamp"], start, now)]))} |->
                 Let([window \in {<<Ts(start, 0), Ts(now, 0)>>} |->
                   IF subset.rows = <<>>
                   THEN Answers(<<Line("I don't see any timestamped credit updates between", window)>>,
                                caller)
                   ELSE IF "Ticket Number" \notin subset.cols THEN Raises("KeyError", caller)
                   ELSE Let([tickets \in {Col(subset, "Ticket Number")} |->
                          LET unique_tickets == Cardinality({tickets[i] : i \in
                                                    {i \in 1..Len(tickets) : notna(tickets[i])}})
                              has_total == "Credit Request Total" \in subset.cols
                              total_credits == sum_skipna([i \in 1..Len(subset.rows) |->
                                                   to_numeric(subset.rows[i]["Credit Request Total"])])
                          IN Let([sample \in {head(sort_values(subset, "Update Timestamp", FALSE).rows, 10)} |->
                               Answers(
                                 << Line("For this period, I see:", window),
                                    Line("credit request record(s) with timestamped updates",
                                         <<Count(Len(subset.rows))>>),
                                    Line("unique ticket(s) updated", <<Count(unique_tickets)>>) >>
                                 \o (IF has_total
                                     THEN <<Line("Total Credit Request Total",
                                                 <<Str(format_money(Num(total_credits)))>>)>>
                                     ELSE <<>>)
                                 \o << Blank, Line("Most recent updates in that range:", <<>>) >>
                                 \o [i \in 1..Len(sample) |->
                                       Line("update", << sample[i]["Update Timestamp"],
                                                         sample[i]["Ticket Number"], sample[i]["Status"] >>)]
                                 \o (IF Len(subset.rows) > Len(sample)
                                     THEN <<Line("more update record(s)",
                                                 <<Count(Len(subset.rows) - Len(sample))>>)>>
                                     ELSE <<>>),
                                 caller)])])])])])])])

intent_rtn_summary(q, df_) ==
    IF ~q.rtn_trigger THEN Declines(df_)
    ELSE IF "RTN_CR_No" \notin df_.cols
    THEN Answers(<<Line("I can't find the RTN_CR_No column in the dataset.", <<>>)>>, df_)
    ELSE Let([dv \in {copy(df_)} |->
           Let([rtn_col \in {[i \in 1..Len(dv.rows) |-> astype_str(dv.rows[i]["RTN_CR_No"])]} |->
             LET valid_mask == [i \in 1..Len(dv.rows) |->
                                   str_strip(rtn_col[i]) # ""
                                   /\ str_upper_strip(rtn_col[i]) \notin {"NAN", "NONE", "NULL"}]
             IN Let([rtn_df \in {copy(Filter(dv, valid_mask))} |->
                  IF rtn_df.rows = <<>>
                  THEN Answers(<<Line("I don't see any credits with a populated RTN_CR_No yet.", <<>>)>>,
                               df_)
                  ELSE Let([sorted \in {IF "Date" \in rtn_df.cols
                                        THEN sort_values(coerce_date(rtn_df, "Date"), "Date", FALSE)
                                        ELSE rtn_df} |->
                         Let([sample \in {head(sorted.rows, 20)} |->
                           Answers(
                             << Line("credit request(s) with a non-empty RTN_CR_No", <<Count(Len(rtn_df.rows))>>),
                                Blank,
                                Line("Here are some of the most recent ones:", <<>>) >>
                             \o [i \in 1..Len(sample) |->
                                   Line("entry", << date_or(get(sample[i], "Date", None), "Unknown date"),
                                                    get(sample[i], "Customer Number", Str("N/A")),
                                                    get(sample[i], "Invoice Number", Str("N/A")),
                                                    get(sample[i], "Ticket Number", Str("N/A")),
                                                    get(sample[i], "RTN_CR_No", Str("N/A")) >>)]
                             \o (IF Len(sorted.rows) > 20
                                 THEN <<Line("more record(s) with a credit number",
                                             <<Count(Len(sorted.rows) - 20)>>)>>
                                 ELSE <<>>),
                             CallerFrame(df_, dv))])])])])])

\* (today - cell).dt.days: whole days, rounded down; NaN for NaT
days_since(now, c) ==
    IF c.k = "ts" THEN Count((now * 86400 - (c.d * 86400 + c.t)) \div 86400) ELSE NaN

\* frame.dropna(subset=[col])
dropna(f, c) == Filter(f, [i \in 1..Len(f.rows) |-> notna(f.rows[i][c])])

\* priority_tickets._no_rtn_mask of one row
no_rtn_mask(r) ==
    LET rtn_series == IF "RTN_CR_No" \in DOMAIN r THEN str_strip(r["RTN_CR_No"])
                      ELSE ""
        has_rtn_col == upper(rtn_series) \notin {"", "NAN", "NONE", "NULL", "NA"}
        status == astype_str(get(r, "Status", Str("")))
        status_has_credit == str_credit_evidence(status)
    IN ~(has_rtn_col \/ status_has_credit)

intent_priority_tickets(q, df_, now) ==
    IF ~q.pr_trigger THEN Declines(df_)
    ELSE IF "Date" \notin df_.cols
    THEN Answers(<<Line("I can't compute priority tickets because there is no Date column in the dataset.", <<>>)>>, df_)
    ELSE Let([coerced \in {coerce_date(copy(df_), "Date")} |->
           Let([caller \in {CallerFrame(df_, coerced)} |->
             Let([dated \in {dropna(coerced, "Date")} |->
               IF dated.rows = <<>>
               THEN Answers(<<Line("I don't see any tickets with a valid Date, so I can't compute priorities yet.", <<>>)>>, caller)
               ELSE Let([dv \in {copy(Filter(dated, [i \in 1..Len(dated.rows) |-> no_rtn_mask(dated.rows[i])]))} |->
                      IF dv.rows = <<>>
                      THEN Answers(<<Line("Nice! Every ticket with a valid date already has a credit number. No pending priority tickets.", <<>>)>>, caller)
                      ELSE LET cutoff == now - 15
                           IN Let([old \in {copy(Filter(dv, [i \in 1..Len(dv.rows) |->
                                                                dv.rows[i]["Date"].d * 86400 + dv.rows[i]["Date"].t
                                                                    <= cutoff * 86400]))} |->
                                IF old.rows = <<>>
                                THEN Answers(<<Line("I don't see any tickets older than 15 days without a credit number.", <<>>)>>, caller)
                                ELSE Let([priority_df \in {sort_values(
                                                               SetCol(old, "Days Open",
                                                                      [i \in 1..Len(old.rows) |-> days_since(now, old.rows[i]["Date"])]),
                                                               "Date", TRUE)} |->
                                       Let([sample \in {head(priority_df.rows, 20)} |->
                                         Answers(
                                           << Line("Here are priority tickets without a credit number (RTN_CR_No), older than 15 days:", <<>>),
                                              Line("Total priority tickets", <<Count(Len(priority_df.rows))>>),
                                              Blank,
                                              Line("Oldest tickets first (top 20):", <<>>) >>
                                           \o [i \in 1..Len(sample) |->
                                                 Line("entry", << sample[i]["Date"],
                                                                  get(sample[i], "Ticket Number", Str("N/A")),
                                                                  get(sample[i], "Customer Number", Str("N/A")),
                                                                  get(sample[i], "Status", Str("N/A")),
                                                                  sample[i]["Days Open"] >>)]
                                           \o (IF Len(priority_df.rows) > Len(sample)
                                               THEN <<Line("more priority ticket(s)",
                                                           <<Count(Len(priority_df.rows) - Len(sample))>>)>>
                                               ELSE <<>>),
                                           caller)])])])])])])])

\* credit_aging._has_rtn / stalled_tickets._has_rtn of one cell
has_rtn(c) ==
    Let([s \in {astype_str(c)} |->
      str_strip(s) # "" /\ str_upper_strip(s) \notin {"NAN", "NONE", "NULL", "NA"}])

\* credit_aging.py:79-80
bins == <<0, 7, 15, 30, 60, 90, 1000000000>>
labels == <<"0-7", "8-15", "16-30", "31-60", "61-90", "90+">>

\* pd.cut(x, bins, right=True, include_lowest=...) of one number: the index
\* of its interval (edges[i], edges[i + 1]], or 0 (NaN) when it is in none
cut(x, edges, include_lowest) ==
    IF include_lowest /\ x = edges[1] THEN 1
    ELSE IF \E i \in 1..(Len(edges) - 1) : edges[i] < x /\ x <= edges[i + 1]
    THEN CHOOSE i \in 1..(Len(edges) - 1) : edges[i] < x /\ x <= edges[i + 1]
    ELSE 0

\* the Aging Bucket without include_lowest
aging_bucket_open_lowest(days) == cut(days, bins, FALSE)

\* credit_aging.py:82-88: the Aging Bucket of a number of days open
aging_bucket(days) == cut(days, bins, TRUE)

\* credit_aging.py:133-139
aging_reason(r) ==
    LET status == get(r, "Status", None)
        reason == get(r, "Reason for Credit", None)
        Falsy(c) == c.k = "none" \/ (c.k = "str" /\ c.s = "")
        chosen == IF ~Falsy(status) THEN status ELSE IF ~Falsy(reason) THEN reason ELSE Str("")
    IN Str(snippet(chosen, 160))

intent_credit_aging(q, df_, now) ==
    IF ~q.ag_trigger THEN Declines(df_)
    ELSE IF ~q.ag_topic THEN Declines(df_)
    ELSE IF "Date" \notin df_.cols
    THEN Answers(<<Line("I can't compute aging without a Date column in the dataset.", <<>>)>>, df_)
    ELSE Let([coerced \in {coerce_date(copy(df_), "Date")} |->
           Let([caller \in {CallerFrame(df_, coerced)} |->
             Let([dated \in {dropna(coerced, "Date")} |->
               Let([dv \in {SetCol(dated, "Days Open",
                                   [i \in 1..Len(dated.rows) |-> days_since(now, dated.rows[i]["Date"])])} |->
                 LET open_mask == [i \in 1..Len(dv.rows) |->
                                      IF "RTN_CR_No" \in dv.cols THEN ~has_rtn(dv.rows[i]["RTN_CR_No"])
                                      ELSE TRUE]
                 IN Let([kept \in {copy(Filter(dv, [i \in 1..Len(dv.rows) |->
                                                       open_mask[i] /\ dv.rows[i]["Days Open"].d >= 0]))} |->
                      IF kept.rows = <<>>
                      THEN Answers(<<Line("I don't see any open credits without a RTN_CR_No to build an aging summary.", <<>>)>>, caller)
                      ELSE LET highlight_threshold == q.highlight_threshold
                           IN Let([open_df \in {SetCol(kept, "Aging Bucket",
                                                       [i \in 1..Len(kept.rows) |->
                                                           Count(aging_bucket(kept.rows[i]["Days Open"].d))])} |->
                                LET bucket_counts == [b \in 1..Len(labels) |->
                                                         Cardinality({i \in 1..Len(open_df.rows) :
                                                                         open_df.rows[i]["Aging Bucket"].d = b})]
                                    total_open == Len(open_df.rows)
                                    total_credits == sum_skipna([i \in 1..Len(open_df.rows) |->
                                                         to_numeric(open_df.rows[i]["Credit Request Total"])])
                                IN Let([over \in {Filter(open_df, [i \in 1..Len(open_df.rows) |->
                                                                      open_df.rows[i]["Days Open"].d >= highlight_threshold])} |->
                                     Let([critical \in {head(sort_values(over, "Days Open", FALSE).rows, 20)} |->
                                       Answers(
                                         << Line("Here's the credit aging summary for open tickets without a credit number (RTN_CR_No):", <<>>),
                                            Blank,
                                            Line("Buckets (days open):", <<>>) >>
                                         \o [b \in 1..Len(labels) |-> Line("bucket", <<Str(labels[b]), Count(bucket_counts[b])>>)]
                                         \o << Blank, Line("Total open tickets without RTN_CR_No", <<Count(total_open)>>) >>
                                         \o (IF "Credit Request Total" \in open_df.cols
                                             THEN <<Line("Sum of Credit Request Total",
                                                         <<Str(format_money(Num(total_credits)))>>)>>
                                             ELSE <<>>)
                                         \o (IF critical = <<>> THEN <<>>
                                             ELSE << Blank, Line("Oldest tickets", <<Count(highlight_threshold)>>) >>
                                                  \o [i \in 1..Len(critical) |->
                                                        Line("entry", << date_or(get(critical[i], "Date", None), "Unknown"),
                                                                         get(critical[i], "Ticket Number", Str("N/A")),
                                                                         get(critical[i], "Customer Number", Str("N/A")),
                                                                         aging_reason(critical[i]),
                                                                         critical[i]["Days Open"] >>)]
                                                  \o (IF Len(over.rows) > Len(critical)
                                                      THEN <<Line("more ticket(s) in that range",
                                                                  <<Count(Len(over.rows) - Len(critical))>>)>>
                                                      ELSE <<>>)),
                                         caller)])])])])])])])])

\* stalled_tickets._ensure_update_timestamp, for a table without an
\* Update Timestamp column
stalled_ensure_update_timestamp(dv0) ==
    Let([dv \in {copy(dv0)} |->
      IF "Status" \notin dv.cols
      THEN SetCol(dv, "Update Timestamp", [i \in 1..Len(dv.rows) |-> NaT])
      ELSE ensure_update_timestamp(dv)])

\* stalled_tickets.py:125-133 bucketize, as the index of the reported
\* bucket: 0 is the bucket "<N" that the answer does not report
bucketize(x, stalled_days) ==
    IF x < stalled_days THEN 0
    ELSE IF x <= stalled_days + 7 THEN 1
    ELSE IF x <= 30 THEN 2
    ELSE 3

\* the sort key of sort_values(["Days Since Update", "Days Open"],
\* ascending=False): larger first, a missing Days Open last among equals
stalled_sort_key(r) ==
    -(r["Days Since Update"].d * 1000000
      + (IF r["Days Open"].k = "count" THEN r["Days Open"].d + 100000 ELSE 0))

intent_stalled_tickets(q, df_, now) ==
    IF ~q.st_keyword THEN Declines(df_)
    ELSE IF ~q.st_topic THEN Declines(df_)
    ELSE LET stalled_days == q.stalled_days
             outer == copy(df_)
         IN Let([stamped \in {stalled_ensure_update_timestamp(outer)} |->
              Let([dated \in {IF "Date" \in stamped.cols THEN coerce_date(stamped, "Date")
                              ELSE SetCol(stamped, "Date", [i \in 1..Len(stamped.rows) |-> NaT])} |->
                Let([dv \in {SetCol(SetCol(dated, "Days Since Update",
                                           [i \in 1..Len(dated.rows) |->
                                               days_since(now, dated.rows[i]["Update Timestamp"])]),
                                    "Days Open",
                                    [i \in 1..Len(dated.rows) |-> days_since(now, dated.rows[i]["Date"])])} |->
                  Let([caller \in {CallerFrame(df_, dv)} |->
                    LET mask == [i \in 1..Len(dv.rows) |->
                                    /\ notna(dv.rows[i]["Update Timestamp"])
                                    /\ dv.rows[i]["Days Since Update"].d >= stalled_days
                                    /\ IF "RTN_CR_No" \in dv.cols THEN ~has_rtn(dv.rows[i]["RTN_CR_No"])
                                       ELSE TRUE]
                    IN Let([stalled_df \in {copy(Filter(dv, mask))} |->
                         IF stalled_df.rows = <<>>
                         THEN Answers(<<Line("I don't see any open tickets without RTN_CR_No that have been stalled for",
                                             <<Count(stalled_days)>>)>>, caller)
                         ELSE Let([bucket_counts \in {[b \in 1..3 |->
                                                          Cardinality({i \in 1..Len(stalled_df.rows) :
                                                              bucketize(stalled_df.rows[i]["Days Since Update"].d,
                                                                        stalled_days) = b})]} |->
                                LET order == argsort([i \in 1..Len(stalled_df.rows) |-> stalled_sort_key(stalled_df.rows[i])],
                                                     [i \in 1..Len(stalled_df.rows) |-> FALSE], TRUE)
                                IN Let([sample \in {head(Pick(stalled_df.rows, order), 20)} |->
                                     Answers(
                                       << Line("Here are stalled tickets (no credit number, no updates for)",
                                               <<Count(stalled_days)>>),
                                          Line("Total stalled tickets", <<Count(Len(stalled_df.rows))>>),
                                          Blank,
                                          Line("Stall buckets (days since last update):", <<>>),
                                          Line("bucket N to N+7", <<Count(stalled_days), Count(stalled_days + 7),
                                                                    Count(bucket_counts[1])>>),
                                          Line("bucket 15-30", <<Count(bucket_counts[2])>>),
                                          Line("bucket 30+", <<Count(bucket_counts[3])>>),
                                          Blank,
                                          Line("Most stalled tickets first (top 20):", <<>>) >>
                                       \o [i \in 1..Len(sample) |->
                                             Line("entry", << sample[i]["Update Timestamp"],
                                                              get(sample[i], "Ticket Number", Str("N/A")),
                                                              get(sample[i], "Customer Number", Str("N/A")),
                                                              Str(snippet(get(sample[i], "Status", Str("")), 160)),
                                                              sample[i]["Days Since Update"],
                                                              sample[i]["Days Open"] >>)]
                                       \o (IF Len(stalled_df.rows) > Len(sample)
                                           THEN <<Line("more stalled ticket(s)",
                                                       <<Count(Len(stalled_df.rows) - Len(sample))>>)>>
                                           ELSE <<>>),
                                       caller)])])])])])])])

\* the str values of S in increasing order
SortedStrs(S) ==
    Let([rank \in {[x \in S |-> Cardinality({y \in S : StrLess(y, x)})]} |->
      [i \in 1..Cardinality(S) |-> CHOOSE x \in S : rank[x] = i - 1]])

\* the keys of frame.groupby(col, dropna=...): the str values of the column
\* in increasing order, then NaN when it is kept
group_keys(rows, c, drop) ==
    LET cells == {rows[i][c] : i \in 1..Len(rows)}
        strs == SortedStrs({x.s : x \in {x \in cells : x.k = "str"}})
    IN [i \in 1..Len(strs) |-> Str(strs[i])]
       \o (IF ~drop /\ \E x \in cells : isna(x) THEN <<NaN>> ELSE <<>>)

\* the rows of one group
group_rows(rows, c, key) ==
    Pick(rows, Where([i \in 1..Len(rows) |->
                         IF isna(key) THEN isna(rows[i][c])
                         ELSE rows[i][c].k = key.k /\ rows[i][c].s = key.s]))

\* frame.groupby(col, dropna=...)[val].sum().sort_values(ascending=False).head(n)
\* as (key, sum) lines
top_sums(rows, c, val, drop, n, tag) ==
    Let([keys \in {group_keys(rows, c, drop)} |->
      Let([sums \in {[k \in 1..Len(keys) |->
                         sum_skipna([i \in 1..Len(group_rows(rows, c, keys[k])) |->
                                        group_rows(rows, c, keys[k])[i][val]])]} |->
        Let([order \in {head(argsort(sums, [k \in 1..Len(keys) |-> FALSE], FALSE), n)} |->
          [j \in 1..Len(order) |-> Line(tag, <<keys[order[j]], Str(format_money(Num(sums[order[j]])))>>)]])])])

intent_overall_summary(q, df_, now) ==
    IF ~q.os_trigger THEN Declines(df_)
    ELSE Let([copied \in {copy(df_)} |->
           Let([dated \in {IF "Date" \in copied.cols THEN coerce_date(copied, "Date")
                           ELSE SetCol(copied, "Date", [i \in 1..Len(copied.rows) |-> NaT])} |->
             Let([this_month_start \in {month_start(now)} |->
               LET total_records == Len(dated.rows)
                   has_total == "Credit Request Total" \in dated.cols
               IN Let([dv \in {SetCol(dated, "Credit Request Total_num",
                                      [i \in 1..Len(dated.rows) |->
                                          IF has_total THEN to_numeric(dated.rows[i]["Credit Request Total"])
                                          ELSE NaN])} |->
                    LET caller == CallerFrame(df_, dv)
                        Amount(rows) == sum_skipna([i \in 1..Len(rows) |-> rows[i]["Credit Request Total_num"]])
                        no_rtn == [i \in 1..Len(dv.rows) |->
                                      IF "RTN_CR_No" \in dv.cols
                                      THEN str_upper_strip(dv.rows[i]["RTN_CR_No"])
                                               \in {"", "NAN", "NONE", "NULL"}
                                      ELSE FALSE]
                    IN Let([open_no_rtn \in {copy(Filter(dv, no_rtn))} |->
                         Let([month_df \in {copy(Filter(dv, [i \in 1..Len(dv.rows) |->
                                                                between(dv.rows[i]["Date"], this_month_start, now)]))} |->
                           LET month_count == Len(month_df.rows)
                           IN Let([top_lines \in {IF month_count > 0 /\ "Customer Number" \in month_df.cols
                                                  THEN top_sums(month_df.rows, "Customer Number", "Credit Request Total_num",
                                                                TRUE, 5, "top customer")
                                                  ELSE <<>>} |->
                                Let([month_sample \in {head(sort_values(month_df, "Date", FALSE).rows, 5)} |->
                                  Answers(
                                    << Line("Overall Credit Overview", <<>>),
                                       Blank,
                                       Line("Total records in dataset", <<Count(total_records)>>),
                                       Line("Total Credit Request Total",
                                            <<Str(IF has_total THEN format_money(Num(Amount(dv.rows))) ELSE "N/A")>>),
                                       Blank,
                                       Line("Open tickets without a credit number (RTN_CR_No)", <<>>),
                                       Line("Count", <<Count(Len(open_no_rtn.rows))>>),
                                       Line("Sum of Credit Request Total", <<Str(format_money(Num(Amount(open_no_rtn.rows))))>>),
                                       Blank,
                                       Line("This month", <<Ts(this_month_start, 0), Ts(now, 0)>>),
                                       Line("Credit records", <<Count(month_count)>>),
                                       Line("Sum of Credit Request Total", <<Str(format_money(Num(Amount(month_df.rows))))>>) >>
                                    \o (IF top_lines = <<>> THEN <<>>
                                        ELSE <<Blank, Line("Top customers by credit this month", <<>>)>> \o top_lines)
                                    \o (IF month_count = 0 THEN <<>>
                                        ELSE <<Blank, Line("Most recent credits this month (up to 5):", <<>>)>>
                                             \o [i \in 1..Len(month_sample) |->
                                                   LET amt == month_sample[i]["Credit Request Total_num"]
                                                   IN Line("entry",
                                                           << date_or(month_sample[i]["Date"], "Unknown date"),
                                                              get(month_sample[i], "Ticket Number", Str("N/A")),
                                                              get(month_sample[i], "Customer Number", Str("N/A")),
                                                              Str(IF notna(amt) THEN format_money(amt) ELSE "N/A") >>)]),
                                    caller)])])])])])])])])

\* top_accounts._find_customer_column and top_items._find_item_column: the
\* first candidate that is a column, or "" for None
RECURSIVE first_column(_, _)
first_column(candidates, cols) ==
    IF candidates = <<>> THEN ""
    ELSE IF Head(candidates) \in cols THEN Head(candidates)
    ELSE first_column(Tail(candidates), cols)

find_customer_column(f) ==
    first_column(<<"Customer Number", "Customer", "Customer Code", "Customer ID", "Cust #", "Cust">>,
                 f.cols)

find_item_column(f) ==
    first_column(<<"Item Number", "Item", "Item ID", "Item Code", "Item #", "ItemNum">>, f.cols)

\* top_accounts.py:39-123 and top_items.py:39-119, which differ in the
\* column and the wording only: the ranking of the groups of key_col
top_ranking(q, df_, key_col, what) ==
    Let([copied \in {copy(df_)} |->
      IF key_col = ""
      THEN Answers(<<Line("I couldn't identify a column, so I can't rank by credits", <<Str(what)>>)>>,
                   CallerFrame(df_, copied))
      ELSE IF "Credit Request Total" \notin df_.cols
      THEN Answers(<<Line("I don't see a Credit Request Total column, so I can't compute which have the most credits", <<Str(what)>>)>>,
                   CallerFrame(df_, copied))
      ELSE Let([numeric \in {SetCol(copied, "Credit Request Total",
                                    [i \in 1..Len(copied.rows) |->
                                        to_numeric(copied.rows[i]["Credit Request Total"])])} |->
             Let([caller \in {CallerFrame(df_, numeric)} |->
               Let([nonzero \in {Filter(numeric, [i \in 1..Len(numeric.rows) |->
                                                     /\ notna(numeric.rows[i]["Credit Request Total"])
                                                     /\ numeric.rows[i]["Credit Request Total"].d # 0])} |->
                 Let([dv \in {IF q.issued /\ "RTN_CR_No" \in nonzero.cols
                              THEN Filter(nonzero, [i \in 1..Len(nonzero.rows) |->
                                                       str_strip(nonzero.rows[i]["RTN_CR_No"]) # ""])
                              ELSE nonzero} |->
                   IF dv.rows = <<>>
                   THEN Answers(<<Line("I don't see any credit records I can use to rank", <<Str(what)>>)>>, caller)
                   ELSE Let([keys \in {group_keys(dv.rows, key_col, TRUE)} |->
                          LET Group(k) == group_rows(dv.rows, key_col, keys[k])
                          IN Let([ticket_count \in {[k \in 1..Len(keys) |->
                                                        IF "Ticket Number" \in dv.cols
                                                        THEN Cardinality({Group(k)[i]["Ticket Number"] :
                                                                 i \in {i \in 1..Len(Group(k)) : notna(Group(k)[i]["Ticket Number"])}})
                                                        ELSE Len(Group(k))]} |->
                               Let([credit_total \in {[k \in 1..Len(keys) |->
                                                          sum_skipna([i \in 1..Len(Group(k)) |-> Group(k)[i]["Credit Request Total"]])]} |->
                                 Let([by_count \in {argsort(ticket_count, [k \in 1..Len(keys) |-> FALSE], FALSE)} |->
                                   LET by_total == argsort(Pick(credit_total, by_count), [k \in 1..Len(keys) |-> FALSE], FALSE)
                                   IN Let([grouped \in {Pick(by_count, by_total)} |->
                                        Let([top_n \in {head(grouped, 10)} |->
                                          Answers(
                                            << Line("Here are those with the most credits (ranked by total Credit Request Total):",
                                                    <<Str(what)>>),
                                               Line("Total in ranking", <<Count(Len(grouped))>>),
                                               Blank,
                                               Line("Top (up to 10):", <<>>) >>
                                            \o [j \in 1..Len(top_n) |->
                                                  Line("entry", << (IF strip(str_of(keys[top_n[j]])) # "" THEN keys[top_n[j]]
                                                                    ELSE Str("Unknown")),
                                                                   Count(ticket_count[top_n[j]]),
                                                                   Str(format_money(Num(credit_total[top_n[j]]))) >>)]
                                            \o (IF Len(grouped) > Len(top_n)
                                                THEN <<Line("more below", <<Count(Len(grouped) - Len(top_n))>>)>> ELSE <<>>),
                                            caller)])])])])])])])])])])])

intent_top_accounts(q, df_) ==
    IF ~q.ta_trigger THEN Declines(df_)
    ELSE top_ranking(q, df_, find_customer_column(df_), "accounts")

intent_top_items(q, df_) ==
    IF ~q.ti_trigger THEN Declines(df_)
    ELSE top_ranking(q, df_, find_item_column(df_), "items")

\* Series.max().normalize() of a column of Timestamps: the latest day
max_day(cells) ==
    CHOOSE d \in {cells[i].d : i \in 1..Len(cells)} : \A i \in 1..Len(cells) : cells[i].d <= d

\* a ratio times 100 with one decimal ("{pct:+.1f}"), in tenths of a percent
pct_tenths(diff, base) ==
    LET a == IF diff < 0 THEN -diff ELSE diff
        twice == (2000 * a) \div base
        rounded == IF (2000 * a) % base = 0 /\ twice % 4 = 1 THEN twice \div 2
                   ELSE (twice + 1) \div 2
    IN IF diff < 0 THEN -rounded ELSE rounded

intent_credit_trends(q, df_) ==
    IF ~q.trend_trigger THEN Declines(df_)
    ELSE IF ~q.trend_topic THEN Declines(df_)
    ELSE IF "Date" \notin df_.cols
    THEN Answers(<<Line("I can't analyze credit trends because the Date column is missing.", <<>>)>>, df_)
    ELSE Let([coerced \in {coerce_date(copy(df_), "Date")} |->
           Let([caller \in {CallerFrame(df_, coerced)} |->
             Let([dv \in {dropna(coerced, "Date")} |->
               IF dv.rows = <<>>
               THEN Answers(<<Line("I don't have enough dated records to analyze trends.", <<>>)>>, caller)
               ELSE Let([latest \in {max_day(Col(dv, "Date"))} |->
                      LET cutoff_30 == latest - 30
                          cutoff_prev == cutoff_30 - 30
                      IN   LET Window(left, right) == Let([picked \in {copy(Filter(dv, [i \in 1..Len(dv.rows) |->
                                                                                           between(dv.rows[i]["Date"], left, right)]))} |->
                                                        SetCol(picked, "Credit Request Total",
                                                               [i \in 1..Len(picked.rows) |->
                                                                   IF "Credit Request Total" \in dv.cols
                                                                      /\ to_numeric(picked.rows[i]["Credit Request Total"]).k = "num"
                                                                   THEN to_numeric(picked.rows[i]["Credit Request Total"])
                                                                   ELSE Num(0)])])
                           IN Let([last_30 \in {Window(cutoff_30, latest)} |->
                                Let([prev_30 \in {Window(cutoff_prev, cutoff_30 - 1)} |->
                                  IF last_30.rows = <<>> \/ prev_30.rows = <<>>
                                  THEN Answers(<<Line("I don't have enough data in the last 60 days to compare the last 30 days vs the previous 30.", <<>>)>>, caller)
                                  ELSE LET n_last == Len(last_30.rows)
                                           n_prev == Len(prev_30.rows)
                                           amt_last == sum_skipna(Col(last_30, "Credit Request Total"))
                                           amt_prev == sum_skipna(Col(prev_30, "Credit Request Total"))
                                       IN     LET Top(c, tag) == IF c \in last_30.cols
                                                                 THEN top_sums(last_30.rows, c, "Credit Request Total", FALSE, 5, tag)
                                                                 ELSE <<>>
                                                  Section(title, c, tag) == IF Top(c, tag) = <<>> THEN <<>>
                                                                            ELSE <<Line(title, <<>>)>> \o Top(c, tag) \o <<Blank>>
                                              IN Answers(
                                                   << Line("Credit Trends - Last 30 vs Previous 30 Days", <<>>),
                                                      Line("Previous 30 days", <<Ts(cutoff_prev, 0), Ts(cutoff_30 - 1, 0)>>),
                                                      Line("Last 30 days", <<Ts(cutoff_30, 0), Ts(latest, 0)>>),
                                                      Blank,
                                                      Line("Volume", << Count(n_last), Count(n_prev), Count(n_last - n_prev),
                                                                        Count(pct_tenths(n_last - n_prev, n_prev)) >>),
                                                      Line("Total credits",
                                                           << Str(format_money(Num(amt_last))), Str(format_money(Num(amt_prev))),
                                                              Str(format_money(Num(amt_last - amt_prev))),
                                                              Count(pct_tenths(amt_last - amt_prev,
                                                                               IF amt_prev > 100 THEN amt_prev ELSE 100)) >>),
                                                      Blank >>
                                                   \o Section("Top customers in the last 30 days:", "Customer Number", "customer")
                                                   \o Section("Top items in the last 30 days:", "Item Number", "item")
                                                   \o Section("Top sales reps in the last 30 days:", "Sales Rep", "rep")
                                                   \o <<Line("Summary: This view is meant as a conversation starter for leadership", <<>>)>>,
                                                   caller)])])])])])])

(***************************************************************************)
(* Naturals beyond the machine word, for the sums of squares of the        *)
(* z-score: sequences of digits of base Base, the least significant first. *)
(***************************************************************************)
Base == 10000

RECURSIVE BigOf(_)
BigOf(n) == IF n = 0 THEN <<>> ELSE <<n % Base>> \o BigOf(n \div Base)

\* digit i of a, zero beyond its length
Digit(a, i) == IF i <= Len(a) THEN a[i] ELSE 0

\* a + b carries into digit i: a digit below overflows, and the digits in
\* between pass the carry on
CarryInto(a, b, i) ==
    \E j \in 1..(i - 1) :
       /\ Digit(a, j) + Digit(b, j) >= Base
       /\ \A k \in (j + 1)..(i - 1) : Digit(a, k) + Digit(b, k) = Base - 1

BigAdd(a, b) ==
    [i \in 1..((IF Len(a) < Len(b) THEN Len(b) ELSE Len(a)) + 1) |->
        (Digit(a, i) + Digit(b, i) + (IF CarryInto(a, b, i) THEN 1 ELSE 0)) % Base] \o <<>>

\* the columns of the long multiplication: column k is the sum of the
\* products a[i] * b[j] with i + j = k + 1
BigColumns(a, b) ==
    [k \in 1..(Len(a) + Len(b) - 1) |->
        SumSeq([i \in 1..k |-> Digit(a, i) * Digit(b, k + 1 - i)])] \o <<>>

\* a column is below Base^3: its three digits go to the places k, k+1, k+2
BigMul(a, b) ==
    IF a = <<>> \/ b = <<>> THEN <<>>
    ELSE Let([columns \in {BigColumns(a, b)} |->
           BigAdd(BigAdd([k \in 1..Len(columns) |-> columns[k] % Base],
                         <<0>> \o [k \in 1..Len(columns) |-> (columns[k] \div Base) % Base]),
                  <<0, 0>> \o [k \in 1..Len(columns) |-> columns[k] \div (Base * Base)])])

\* without the leading zero digits
RECURSIVE BigTrim(_)
BigTrim(a) ==
    IF a = <<>> THEN a ELSE IF a[Len(a)] = 0 THEN BigTrim(SubSeq(a, 1, Len(a) - 1)) ELSE a

RECURSIVE BigLessTrimmed(_, _)
BigLessTrimmed(a, b) ==
    IF Len(a) # Len(b) THEN Len(a) < Len(b)
    ELSE IF a = <<>> THEN FALSE
    ELSE IF a[Len(a)] # b[Len(b)] THEN a[Len(a)] < b[Len(b)]
    ELSE BigLessTrimmed(SubSeq(a, 1, Len(a) - 1), SubSeq(b, 1, Len(b) - 1))

BigLess(a, b) == BigLessTrimmed(BigTrim(a), BigTrim(b))
BigEq(a, b) == BigTrim(a) = BigTrim(b)

Abs(x) == IF x < 0 THEN -x ELSE x

\* the sum of the squares of xs[lo..hi], by halves
RECURSIVE BigSumSquaresRange(_, _, _)
BigSumSquaresRange(xs, lo, hi) ==
    IF lo > hi THEN <<>>
    ELSE IF lo = hi THEN BigMul(BigOf(Abs(xs[lo])), BigOf(Abs(xs[lo])))
    ELSE BigAdd(BigSumSquaresRange(xs, lo, (lo + hi) \div 2),
                BigSumSquaresRange(xs, (lo + hi) \div 2 + 1, hi))

BigSumSquares(xs) == BigSumSquaresRange(xs, 1, Len(xs))

\* Series.std() == 0 of the amounts xs (in cents): the sample deviation
\* (ddof=1) is NaN for fewer than two values, and zero when
\* n * sum(x^2) = sum(x)^2
std_is_zero(xs) ==
    /\ Len(xs) >= 2
    /\ BigEq(BigMul(BigOf(Len(xs)), BigSumSquares(xs)),
             BigMul(BigOf(Abs(SumSeq(xs))), BigOf(Abs(SumSeq(xs)))))

std_is_nan(xs) == Len(xs) < 2

\* credit_anomalies.py:75, 79: z_score.abs() >= z_threshold for the amount x
\* of the population xs, with z = (x - mu) / sigma:
\*   (n x - S)^2 (n - 1) >= z_threshold^2 n (n sum(x^2) - S^2)
z_threshold == 3

z_is_extreme(x, xs) ==
    LET n == Len(xs)
    IN Let([S \in {SumSeq(xs)} |->
         Let([d \in {BigOf(Abs(n * x - S))} |->
           LET lhs == BigAdd(BigMul(BigMul(d, d), BigOf(n - 1)),
                             BigMul(BigOf(z_threshold * z_threshold * n),
                                    BigMul(BigOf(Abs(S)), BigOf(Abs(S)))))
               rhs == BigMul(BigOf(z_threshold * z_threshold * n * n), BigSumSquares(xs))
           IN ~std_is_nan(xs) /\ ~BigLess(lhs, rhs)])])

\* credit_anomalies.py:74, 78: abs() >= amount_threshold, in cents
amount_threshold == 50000

\* the amount test with a strict comparison
amount_is_large_strict(x) == Abs(x) > amount_threshold

amount_is_large(x) == Abs(x) >= amount_threshold

\* credit_anomalies.py:77-80: the mask of the anomalies
anomaly_mask(x, xs) == amount_is_large(x) /\ z_is_extreme(x, xs)

intent_credit_anomalies(q, df_) ==
    IF ~q.an_trigger THEN Declines(df_)
    ELSE IF ~q.an_topic THEN Declines(df_)
    ELSE IF "Date" \notin df_.cols \/ "Credit Request Total" \notin df_.cols
    THEN Answers(<<Line("I can't run anomaly detection because I need both Date and Credit Request Total columns.", <<>>)>>, df_)
    ELSE Let([coerced \in {coerce_date(copy(df_), "Date")} |->
           Let([caller \in {CallerFrame(df_, coerced)} |->
             Let([dv \in {dropna(coerced, "Date")} |->
               IF dv.rows = <<>>
               THEN Answers(<<Line("I don't have any dated records to run anomaly detection.", <<>>)>>,
                            caller)
               ELSE Let([latest \in {max_day(Col(dv, "Date"))} |->
                      LET cutoff == latest - 90
                      IN Let([picked \in {copy(Filter(dv, [i \in 1..Len(dv.rows) |->
                                                              between(dv.rows[i]["Date"], cutoff, latest)]))} |->
                           Let([recent \in {SetCol(picked, "Credit Request Total",
                                                   [i \in 1..Len(picked.rows) |->
                                                       IF to_numeric(picked.rows[i]["Credit Request Total"]).k = "num"
                                                       THEN to_numeric(picked.rows[i]["Credit Request Total"])
                                                       ELSE Num(0)])} |->
                             IF recent.rows = <<>>
                             THEN Answers(<<Line("There are no credit records in the last 90 days to analyze.", <<>>)>>,
                                          caller)
                             ELSE LET xs == [i \in 1..Len(recent.rows) |-> recent.rows[i]["Credit Request Total"].d]
                                  IN IF std_is_zero(xs)
                                     THEN Answers(<<Line("All recent credits are roughly the same size - no clear anomalies.",
                                                         <<>>)>>, caller)
                                     ELSE Let([scored \in {SetCol(recent, "z_score",
                                                                  [i \in 1..Len(recent.rows) |->
                                                                      IF std_is_nan(xs) THEN NaN ELSE Count(Len(xs) * xs[i] - SumSeq(xs))])} |->
                                            Let([anomalies \in {copy(Filter(scored, [i \in 1..Len(scored.rows) |-> anomaly_mask(xs[i], xs)]))} |->
                                              IF anomalies.rows = <<>>
                                              THEN Answers(<<Line("I don't see any large, statistically unusual credits in the last 90 days",
                                                                  <<Str(format_money(Num(amount_threshold))), Count(z_threshold)>>)>>,
                                                           caller)
                                              ELSE LET total_anom_amt == sum_skipna(Col(anomalies, "Credit Request Total"))
                                                       Section(title, c, tag) == IF c \in anomalies.cols
                                                                                 THEN <<Line(title, <<>>)>>
                                                                                      \o top_sums(anomalies.rows, c, "Credit Request Total", FALSE, 5, tag)
                                                                                      \o <<Blank>>
                                                                                 ELSE <<>>
                                                   IN Let([abs_z \in {[i \in 1..Len(anomalies.rows) |-> Abs(anomalies.rows[i]["z_score"].d)]} |->
                                                        Let([top_rows \in {head(Pick(anomalies.rows,
                                                                                     argsort(abs_z, [i \in 1..Len(abs_z) |-> FALSE], FALSE)), 15)} |->
                                                          Answers(
                                                            << Line("Credit Anomaly Scan - Last 90 Days", <<>>),
                                                               Line("Window analyzed", <<Ts(cutoff, 0), Ts(latest, 0)>>),
                                                               Line("Anomalous credits found",
                                                                    <<Count(Len(anomalies.rows)), Str(format_money(Num(total_anom_amt)))>>),
                                                               Line("Rule", <<Str(format_money(Num(amount_threshold))), Count(z_threshold)>>),
                                                               Blank >>
                                                            \o Section("Top customers with anomalous credits:", "Customer Number", "customer")
                                                            \o Section("Top items with anomalous credits:", "Item Number", "item")
                                                            \o Section("Top sales reps with anomalous credits:", "Sales Rep", "rep")
                                                            \o <<Line("Most extreme anomalous credits (top 15 by |z-score|):", <<>>)>>
                                                            \o [i \in 1..Len(top_rows) |->
                                                                  Line("entry", << date_or(get(top_rows[i], "Date", None), "Unknown"),
                                                                                   get(top_rows[i], "Ticket Number", Str("N/A")),
                                                                                   get(top_rows[i], "Customer Number", Str("N/A")),
                                                                                   get(top_rows[i], "Item Number", Str("N/A")),
                                                                                   get(top_rows[i], "Sales Rep", Str("N/A")),
                                                                                   Str(format_money(top_rows[i]["Credit Request Total"])),
                                                                                   top_rows[i]["z_score"] >>)]
                                                            \o <<Blank, Line("Use case: This view is perfect for weekly risk reviews", <<>>)>>,
                                                            caller)])])])])])])])])])])

(***************************************************************************)
(* The router.                                                             *)
(***************************************************************************)
\* a priority order that tries the status handler before the requests handler
INTENTS_status_first ==
    << "intent_ticket_status", "intent_ticket_requests", "intent_record_lookup",
       "intent_customer_tickets", "intent_credit_activity", "intent_rtn_summary",
       "intent_priority_tickets", "intent_credit_aging", "intent_stalled_tickets",
       "intent_overall_summary", "intent_top_accounts", "intent_top_items",
       "intent_credit_trends", "intent_credit_anomalies" >>

\* intent_router.py:29-44
INTENTS ==
    << "intent_ticket_requests", "intent_ticket_status", "intent_record_lookup",
       "intent_customer_tickets", "intent_credit_activity", "intent_rtn_summary",
       "intent_priority_tickets", "intent_credit_aging", "intent_stalled_tickets",
       "intent_overall_summary", "intent_top_accounts", "intent_top_items",
       "intent_credit_trends", "intent_credit_anomalies" >>

\* the orders in which list(set) can give the ids of a query
Seeds == {0, 1}

\* intent(query, df) for the handlers that read no module-level state
handler(name, q, df_, now, seed) ==
    CASE name = "intent_ticket_status" -> intent_ticket_status(q, df_)
      [] name = "intent_record_lookup" -> intent_record_lookup(q, df_, seed)
      [] name = "intent_customer_tickets" -> intent_customer_tickets(q, df_, now)
      [] name = "intent_credit_activity" -> intent_credit_activity(q, df_, now)
      [] name = "intent_rtn_summary" -> intent_rtn_summary(q, df_)
      [] name = "intent_priority_tickets" -> intent_priority_tickets(q, df_, now)
      [] name = "intent_credit_aging" -> intent_credit_aging(q, df_, now)
      [] name = "intent_stalled_tickets" -> intent_stalled_tickets(q, df_, now)
      [] name = "intent_overall_summary" -> intent_overall_summary(q, df_, now)
      [] name = "intent_top_accounts" -> intent_top_accounts(q, df_)
      [] name = "intent_top_items" -> intent_top_items(q, df_)
      [] name = "intent_credit_trends" -> intent_credit_trends(q, df_)
      [] name = "intent_credit_anomalies" -> intent_credit_anomalies(q, df_)

\* intent(query, df), with the module-level LAST_TICKET_LOOKUP before and after
call(name, q, df_, now, seed, last) ==
    IF name = "intent_ticket_requests" THEN intent_ticket_requests(q, df_, last)
    ELSE handler(name, q, df_, now, seed) @@ [last |-> last]

\* a help text that was not extended when the last intent was added
help_text_short ==
    << Line("MiniTwin here. I didn't fully understand that request.", <<>>),
       Blank,
       Line("Right now I can help you with:", <<>>) >>
    \o [i \in 1..13 |->
          Line(<< "1. Ticket status", "2. Ticket requests", "3. Record lookup",
                  "4. Customer history", "5. Credit activity", "6. Credits with RTN",
                  "7. Priority tickets", "8. Credit aging", "9. Stalled tickets",
                  "10. Overall overview", "11. Top accounts", "12. Top items",
                  "13. Credit trends" >>[i],
               <<Str(HelpExamples[i])>>)]

\* intent_router.py:66-83
help_text ==
    << Line("MiniTwin here. I didn't fully understand that request.", <<>>),
       Blank,
       Line("Right now I can help you with:", <<>>),
       Line("1. Ticket status", <<Str(HelpExamples[1])>>),
       Line("2. Ticket requests", <<Str(HelpExamples[2])>>),
       Line("3. Record lookup", <<Str(HelpExamples[3])>>),
       Line("4. Customer history", <<Str(HelpExamples[4])>>),
       Line("5. Credit activity", <<Str(HelpExamples[5])>>),
       Line("6. Credits with RTN", <<Str(HelpExamples[6])>>),
       Line("7. Priority tickets", <<Str(HelpExamples[7])>>),
       Line("8. Credit aging", <<Str(HelpExamples[8])>>),
       Line("9. Stalled tickets", <<Str(HelpExamples[9])>>),
       Line("10. Overall overview", <<Str(HelpExamples[10])>>),
       Line("11. Top accounts", <<Str(HelpExamples[11])>>),
       Line("12. Top items", <<Str(HelpExamples[12])>>),
       Line("13. Credit trends", <<Str(HelpExamples[13])>>),
       Line("14. Anomalies", <<Str(HelpExamples[14])>>) >>

\* the optional table of a response
NoTable == [state |-> "None", rows |-> <<>>]

\* intent_router.py:53: the loop before its first turn.  A state of the loop
\* is what skybar_answer returns (kind "return": text and table) or the
\* exception that leaves it (kind "raise") or that it goes on (kind "none"),
\* with the handler that answered (0: none), the handlers called, the
\* caller's table and LAST_TICKET_LOOKUP
Going(df_, last) ==
    [kind |-> "none", text |-> <<>>, table |-> NoTable, handler |-> 0,
     invoked |-> <<>>, df |-> df_, last |-> last]

\* a turn that goes on after an answer, so that the last answer is returned
route_step_last(k, s, q, now, seed) ==
    IF s.kind = "raise" THEN s
    ELSE Let([r \in {call(INTENTS[k], q, s.df, now, seed, s.last)} |->
           LET after == [s EXCEPT !.invoked = @ \o <<k>>, !.df = r.df, !.last = r.last]
           IN IF r.kind = "raise"
              THEN [after EXCEPT !.kind = "raise", !.text = r.text, !.table = NoTable, !.handler = k]
              ELSE IF r.kind = "none" \/ (r.kind = "text" /\ IsBlankText(r.text))
              THEN after
              ELSE [after EXCEPT !.kind = "return", !.text = r.text, !.handler = k]])

\* intent_router.py:56-63: what the loop does with the value r that
\* INTENTS[k] returned
settle(k, s, r) ==
    LET after == [s EXCEPT !.invoked = @ \o <<k>>, !.df = r.df, !.last = r.last]
    IN IF r.kind = "raise"
       THEN [after EXCEPT !.kind = "raise", !.text = r.text, !.handler = k]
       ELSE IF r.kind = "pair"
       THEN [after EXCEPT !.kind = "return", !.text = r.text, !.table = r.table, !.handler = k]
       ELSE IF r.kind = "text" /\ ~IsBlankText(r.text)
       THEN [after EXCEPT !.kind = "return", !.text = r.text, !.handler = k]
       ELSE after

\* intent_router.py:54-63: the turn of the loop for INTENTS[k]
route_step(k, s, q, now, seed) ==
    IF s.kind # "none" THEN s
    ELSE Let([r \in {call(INTENTS[k], q, s.df, now, seed, s.last)} |-> settle(k, s, r)])

RECURSIVE route_range_last(_, _, _, _, _, _)
route_range_last(lo, hi, s, q, now, seed) ==
    IF lo = hi THEN route_step_last(lo, s, q, now, seed)
    ELSE Let([first \in {route_range_last(lo, (lo + hi) \div 2, s, q, now, seed)} |->
           route_range_last((lo + hi) \div 2 + 1, hi, first, q, now, seed)])

\* intent_router.py:53-63: the turns for INTENTS[lo..hi], one after the
\* other: those of the first half, then those of the second
RECURSIVE route_range(_, _, _, _, _, _)
route_range(lo, hi, s, q, now, seed) ==
    IF lo = hi THEN route_step(lo, s, q, now, seed)
    ELSE Let([first \in {route_range(lo, (lo + hi) \div 2, s, q, now, seed)} |->
           route_range((lo + hi) \div 2 + 1, hi, first, q, now, seed)])

\* intent_router.py:65-85: the help text when the loop ends without a return
route_end(s) == IF s.handler = 0 /\ s.kind # "raise" THEN [s EXCEPT !.kind = "return", !.text = help_text] ELSE s

skybar_answer_last(q, df_, now, seed, last) ==
    Let([s \in {route_range_last(1, Len(INTENTS), Going(df_, last), q, now, seed)} |-> route_end(s)])

\* intent_router.py:47-85
skybar_answer(q, df_, now, seed, last) ==
    Let([s \in {route_range(1, Len(INTENTS), Going(df_, last), q, now, seed)} |-> route_end(s)])

(***************************************************************************)
(* The state machine: a session of calls of skybar_answer on one table.    *)
(***************************************************************************)
NoResult == [kind |-> "init", text |-> <<>>, table |-> NoTable, handler |-> 0, invoked |-> <<>>]

\* probe: the observer of a session.  Once armed it records the query and
\* the text of the next call, whether calls came before it (before) and
\* whether a call with another query came after it (others)
Unobserved == [state |-> "off", query |-> "", text |-> <<>>, before |-> FALSE, others |-> FALSE]
Pending(before) == [Unobserved EXCEPT !.state = "pending", !.before = before]
Recorded(before, q, text) ==
    [state |-> "recorded", query |-> q, text |-> text, before |-> before, others |-> FALSE]

\* st.session_state.get("last_df") before any submission
NoLastDf == [state |-> "unset", rows |-> <<>>]

\* skybar_answer called without a chat shell around it
NoShell ==
    /\ shell = "none"
    /\ history = <<>>
    /\ last_df = NoLastDf

Init ==
    /\ df \in Tables
    /\ today = Today
    /\ LAST_TICKET_LOOKUP = Unbound
    /\ query = ""
    /\ result = NoResult
    /\ probe = Unobserved
    /\ hashseed \in Seeds
    /\ stubs = <<>>
    /\ NoShell

\* text, table = skybar_answer(q, df)
Ask(q) ==
    \E r \in {skybar_answer(Q(q), df, today, hashseed, LAST_TICKET_LOOKUP)} :
       /\ query' = q
       /\ result' = [kind |-> r.kind, text |-> r.text, table |-> r.table,
                     handler |-> r.handler, invoked |-> r.invoked]
       /\ df' = r.df
       /\ LAST_TICKET_LOOKUP' = r.last
       /\ probe' = IF probe.state = "pending" THEN Recorded(probe.before, q, r.text)
                   ELSE IF probe.state = "recorded" /\ q # probe.query
                   THEN [probe EXCEPT !.others = TRUE]
                   ELSE probe
       /\ UNCHANGED <<today, hashseed, shell, history, last_df, stubs>>

Next == \E q \in Queries : Ask(q)

Spec == Init /\ [][Next]_vars

(***************************************************************************)
(* An observed session: the observer is armed at some point, before or     *)
(* after other calls, and the calls go on.                                 *)
(***************************************************************************)
TwiceTables == {t \in Tables : t.cols = AllCols}

TwiceQueries ==
    { "hello", "R-040699", "R-048484", "R-12",
      "is invoice INV-14068709 on record?",
      "MiniTwin, show the credit aging summary" }

InitTwice ==
    /\ df \in TwiceTables
    /\ today = Today
    /\ LAST_TICKET_LOOKUP = Unbound
    /\ query = ""
    /\ result = NoResult
    /\ probe = Unobserved
    /\ hashseed \in Seeds
    /\ stubs = <<>>
    /\ NoShell

Arm ==
    /\ probe.state = "off"
    /\ probe' = Pending(result.kind # "init")
    /\ UNCHANGED <<df, today, LAST_TICKET_LOOKUP, query, result, hashseed,
                   shell, history, last_df, stubs>>

NextTwice == Arm \/ \E q \in TwiceQueries : Ask(q)

SpecTwice == InitTwice /\ [][NextTwice]_vars

(***************************************************************************)
(* Sessions on the tables of the aging summary and of the anomaly scan.    *)
(***************************************************************************)
InitAging ==
    /\ df \in AgingTables
    /\ today = Today
    /\ LAST_TICKET_LOOKUP = Unbound
    /\ query = ""
    /\ result = NoResult
    /\ probe = Unobserved
    /\ hashseed \in Seeds
    /\ stubs = <<>>
    /\ NoShell

NextAging == \E q \in AgingQueries : Ask(q)

SpecAging == InitAging /\ [][NextAging]_vars

InitAnom ==
    /\ df \in AnomalyTables
    /\ today = Today
    /\ LAST_TICKET_LOOKUP = Unbound
    /\ query = ""
    /\ result = NoResult
    /\ probe = Unobserved
    /\ hashseed \in Seeds
    /\ stubs = <<>>
    /\ NoShell

NextAnom == \E q \in AnomalyQueries : Ask(q)

SpecAnom == InitAnom /\ [][NextAnom]_vars

(***************************************************************************)
(* Sessions on the tables of the update activity.                          *)
(***************************************************************************)
InitActivity ==
    /\ df \in ActivityTables
    /\ today = Today
    /\ LAST_TICKET_LOOKUP = Unbound
    /\ query = ""
    /\ result = NoResult
    /\ probe = Unobserved
    /\ hashseed \in Seeds
    /\ stubs = <<>>
    /\ NoShell

NextActivity == \E q \in ActivityQueries : Ask(q)

SpecActivity == InitActivity /\ [][NextActivity]_vars

(***************************************************************************)
(* Sessions on the tables of the stalled tickets.                          *)
(***************************************************************************)
InitStalled ==
    /\ df \in StalledTables
    /\ today = Today
    /\ LAST_TICKET_LOOKUP = Unbound
    /\ query = ""
    /\ result = NoResult
    /\ probe = Unobserved
    /\ hashseed \in Seeds
    /\ stubs = <<>>
    /\ NoShell

NextStalled == \E q \in StalledQueries : Ask(q)

SpecStalled == InitStalled /\ [][NextStalled]_vars

(***************************************************************************)
(* Sessions on the tables of the priority tickets.                         *)
(***************************************************************************)
InitPriority ==
    /\ df \in PriorityTables
    /\ today = Today
    /\ LAST_TICKET_LOOKUP = Unbound
    /\ query = ""
    /\ result = NoResult
    /\ probe = Unobserved
    /\ hashseed \in Seeds
    /\ stubs = <<>>
    /\ NoShell

NextPriority == \E q \in PriorityQueries : Ask(q)

SpecPriority == InitPriority /\ [][NextPriority]_vars

(***************************************************************************)
(* Sessions on the tables of the credit trends.                            *)
(***************************************************************************)
InitTrend ==
    /\ df \in TrendTables
    /\ today = Today
    /\ LAST_TICKET_LOOKUP = Unbound
    /\ query = ""
    /\ result = NoResult
    /\ probe = Unobserved
    /\ hashseed \in Seeds
    /\ stubs = <<>>
    /\ NoShell

NextTrend == \E q \in TrendQueries : Ask(q)

SpecTrend == InitTrend /\ [][NextTrend]_vars

(***************************************************************************)
(* Sessions on the tables of the rankings.                                 *)
(***************************************************************************)
InitTop ==
    /\ df \in TopTables
    /\ today = Today
    /\ LAST_TICKET_LOOKUP = Unbound
    /\ query = ""
    /\ result = NoResult
    /\ probe = Unobserved
    /\ hashseed \in Seeds
    /\ stubs = <<>>
    /\ NoShell

NextTop == \E q \in TopQueries : Ask(q)

SpecTop == InitTop /\ [][NextTop]_vars

(***************************************************************************)
(* Sessions with handlers of fixed return values in INTENTS: every value   *)
(* of IntentReturn (intent_router.py:25), None, a text or a pair of a text *)
(* and a table, the text empty or not.                                     *)
(***************************************************************************)
SideTable == [state |-> "frame", rows |-> <<>>]

StubReturns ==
    { [kind |-> "none", text |-> <<>>, table |-> NoTable],
      [kind |-> "text", text |-> <<>>, table |-> NoTable],
      [kind |-> "text", text |-> <<Line("ok", <<>>)>>, table |-> NoTable],
      [kind |-> "pair", text |-> <<>>, table |-> SideTable],
      [kind |-> "pair", text |-> <<Line("ok", <<>>)>>, table |-> SideTable] }

MaxStubs == 3

InitRouter ==
    /\ df = Frame(AllCols, <<>>)
    /\ today = Today
    /\ LAST_TICKET_LOOKUP = Unbound
    /\ query = ""
    /\ result = NoResult
    /\ probe = Unobserved
    /\ hashseed = 0
    /\ NoShell
    /\ stubs \in UNION {[1..n -> StubReturns] : n \in 1..MaxStubs}

\* intent_router.py:53-63 over the handlers lo..hi of fixed return values
RECURSIVE route_stubs(_, _, _)
route_stubs(lo, hi, s) ==
    IF lo > hi THEN s
    ELSE route_stubs(lo + 1, hi,
                     IF s.kind # "none" THEN s
                     ELSE settle(lo, s, stubs[lo] @@ [df |-> s.df, last |-> s.last]))

\* skybar_answer(q, df) with those handlers in INTENTS
AskStubbed(q) ==
    \E r \in {route_end(route_stubs(1, Len(stubs), Going(df, LAST_TICKET_LOOKUP)))} :
       /\ query' = q
       /\ result' = [kind |-> r.kind, text |-> r.text, table |-> r.table,
                     handler |-> r.handler, invoked |-> r.invoked]
       /\ df' = r.df
       /\ LAST_TICKET_LOOKUP' = r.last
       /\ UNCHANGED <<today, probe, hashseed, shell, history, last_df, stubs>>

NextRouter == \E q \in {"hello"} : AskStubbed(q)

SpecRouter == InitRouter /\ [][NextRouter]_vars

(***************************************************************************)
(* The chat shells: the CSV-upload script (part_000) and the Firebase      *)
(* script (streamlit_app.py).  One step is one run of the script with the  *)
(* Ask button pressed and q in the text input; the loops that render the   *)
(* history write to the page only.                                         *)
(***************************************************************************)
\* one entry of st.session_state["history"]
Entry(role, content) == [role |-> role, content |-> content]

\* the contents of the entries: the query, the value skybar_answer returned
\* (the text and table pair), its text alone, the error string with str(e)
\* in it, and None
QueryContent(q) == [kind |-> "query", query |-> q, text |-> <<>>, table |-> NoTable]
PairContent(r) == [kind |-> "pair", query |-> "", text |-> r.text, table |-> r.table]
TextContent(r) == [kind |-> "text", query |-> "", text |-> r.text, table |-> NoTable]
ErrorContent(r) == [kind |-> "error", query |-> "", text |-> r.text, table |-> NoTable]
NoneContent == [kind |-> "None", query |-> "", text |-> <<>>, table |-> NoTable]

\* a list that forgets what it held
append_reset(list, x) == <<x>>

\* list.append(x)
append(list, x) == list \o <<x>>

\* the uploaded CSV files of the shell sessions
CsvTables ==
    {t \in Tables : Len(t.rows) <= 1 /\ t.cols \in {AllCols, AllCols \ {"Ticket Number"}}}

\* streamlit_app.py:55-83: the columns load_data asks for that a handler
\* reads (no handler reads Record ID, Requested By or Issue Type), Date
\* parsed and the rows without a date dropped
FirebaseCols == AllCols \ {"Invoice Number", "Reason for Credit"}

FirebaseRow(row) ==
    [c \in FirebaseCols |-> IF c = "Date" THEN to_datetime(row[c]) ELSE row[c]]

FirebaseTables ==
    {Frame(FirebaseCols, [i \in 1..Len(rows) |-> FirebaseRow(rows[i])]) :
        rows \in RowsUpTo({r \in RowUniverse : to_datetime(r["Date"]).k = "ts"}, MaxRows)}

\* what is typed before the button is pressed
ShellQueries == {"hello", "R-12", "R-040699", "", "   "}

\* the longest history after which a question is still asked
MaxHistory == 6

InitShell ==
    /\ \/ shell = "part_000" /\ df \in CsvTables
       \/ shell = "streamlit_app" /\ df \in FirebaseTables
    /\ today = Today
    /\ LAST_TICKET_LOOKUP = Unbound
    /\ query = ""
    /\ result = NoResult
    /\ probe = Unobserved
    /\ hashseed \in Seeds
    /\ stubs = <<>>
    /\ history = <<>>
    /\ last_df = NoLastDf

Returned(r) ==
    [kind |-> r.kind, text |-> r.text, table |-> r.table, handler |-> r.handler,
     invoked |-> r.invoked]

\* part_000:68-79
SubmitCsv(q) ==
    /\ shell = "part_000"
    /\ strip(q) # "" => Len(history) < MaxHistory
    /\ query' = q
    /\ IF strip(q) = ""
       THEN UNCHANGED <<df, LAST_TICKET_LOOKUP, result, history>>
       ELSE \E r \in {skybar_answer(Q(q), df, today, hashseed, LAST_TICKET_LOOKUP)} :
               /\ result' = Returned(r)
               /\ df' = r.df
               /\ LAST_TICKET_LOOKUP' = r.last
               /\ history' =
                     append(append(history, Entry("user", QueryContent(q))),
                            Entry("assistant", IF r.kind = "raise" THEN ErrorContent(r)
                                               ELSE PairContent(r)))
    /\ UNCHANGED <<today, probe, hashseed, shell, last_df, stubs>>

\* streamlit_app.py:117-124 and 134-160
SubmitFirebase(q) ==
    /\ shell = "streamlit_app"
    /\ strip(q) # "" => Len(history) < MaxHistory
    /\ query' = q
    /\ IF strip(q) = ""
       THEN UNCHANGED <<df, LAST_TICKET_LOOKUP, result, history, last_df>>
       ELSE \E answer \in {skybar_answer(Q(q), df, today, hashseed, LAST_TICKET_LOOKUP)} :
            \E r \in {skybar_answer(Q(q), answer.df, today, hashseed, answer.last)} :
               LET first == append(append(history, Entry("user", QueryContent(q))),
                                   Entry("assistant", IF answer.kind = "raise"
                                                      THEN ErrorContent(answer)
                                                      ELSE PairContent(answer)))
                   caught == IF r.kind = "raise"
                             THEN append(first, Entry("assistant", ErrorContent(r)))
                             ELSE first
               IN /\ result' = Returned(r)
                  /\ df' = r.df
                  /\ LAST_TICKET_LOOKUP' = r.last
                  /\ history' =
                        append(append(caught, Entry("user", QueryContent(q))),
                               Entry("assistant", IF r.kind = "raise" THEN NoneContent
                                                  ELSE TextContent(r)))
                  /\ last_df' = IF r.kind = "raise" THEN NoTable ELSE r.table
    /\ UNCHANGED <<today, probe, hashseed, shell, stubs>>

NextShell == \E q \in ShellQueries : SubmitCsv(q) \/ SubmitFirebase(q)

SpecShell == InitShell /\ [][NextShell]_vars

(***************************************************************************)
(* The claims.  result holds what the last call of skybar_answer returned  *)
(* for query on df; Outcome(j) is what INTENTS[j] alone gives for them.    *)
(***************************************************************************)
Called == result.kind # "init"

Outcome(j) == call(INTENTS[j], Q(query), df, today, hashseed, LAST_TICKET_LOOKUP)

\* a handler result the dispatcher goes past: None, or a text that strips
\* to nothing
Declined(r) == r.kind = "none" \/ (r.kind = "text" /\ IsBlankText(r.text))

\* the rows of df whose cell in column c is the string s
RowsWith(c, s) == SelectSeq(df.rows, LAMBDA r : r[c].k = "str" /\ r[c].s = s)

\* C1: for every query and every table, whatever columns it has,
\* skybar_answer returns a (text, optional table) pair and never raises.
C1_NeverRaises == result.kind # "raise"

\* C2: skybar_answer calls the handlers in the INTENTS order, one after the
\* other from the first, and stops at the first that does not decline: the
\* handlers called are exactly INTENTS[1..n], every handler before the n-th
\* declines the query, and the text returned is the n-th handler's, also
\* when a later handler would answer the query too.
C2_FirstAnswerWins ==
    Called =>
       LET n == IF result.handler = 0 THEN Len(INTENTS) ELSE result.handler
           before == IF result.handler = 0 THEN n ELSE n - 1
       IN /\ result.invoked = [i \in 1..n |-> i]
          /\ \A j \in 1..before : Declined(Outcome(j))
          /\ result.handler # 0 => ~Declined(Outcome(n))
          /\ (result.handler # 0 /\ result.kind = "return") => result.text = Outcome(n).text

\* a query two handlers answer: ticket_requests wins over record_lookup
C2_Witness ==
    /\ Called
    /\ result.handler = 1
    /\ ~Declined(Outcome(3))
    /\ Outcome(3).text # result.text

\* the text lists the intents 1..n, each with one example of its own
EnumeratesIntents(text, n) ==
    /\ Len(text) = 3 + n
    /\ \A i \in 1..n :
          /\ startswith(text[3 + i].tag, IntStr(i) \o ". ")
          /\ Len(text[3 + i].v) = 1
          /\ text[3 + i].v[1].k = "str"
          /\ text[3 + i].v[1].s # ""
          /\ \A j \in 1..n : j # i => text[3 + j].v # text[3 + i].v

\* C3: when all 14 handlers decline the query, as for "hello",
\* skybar_answer returns the fixed help text, which enumerates the 14
\* intents with one example each, and no table.
C3_HelpFallback ==
    /\ (Called /\ query = "hello") => \A j \in 1..Len(INTENTS) : Declined(Outcome(j))
    /\ (Called /\ \A j \in 1..Len(INTENTS) : Declined(Outcome(j))) =>
          /\ result.kind = "return"
          /\ result.handler = 0
          /\ result.table = NoTable
          /\ result.text = help_text
          /\ EnumeratesIntents(result.text, 14)

C3_Witness ==
    /\ Called
    /\ query = "hello"
    /\ df.rows # <<>>
    /\ df.cols = AllCols
    /\ result.handler = 0

\* the query names a ticket ID that is in the Ticket Number column
NamesPresentTicket ==
    /\ Called
    /\ Q(query).ticket # ""
    /\ "Ticket Number" \in df.cols
    /\ RowsWith("Ticket Number", Q(query).ticket) # <<>>

\* C4: for a query naming a ticket ID present in the table, the response
\* carries a table, made of exactly the rows whose Ticket Number is that ID.
C4_TableInResponse ==
    NamesPresentTicket =>
       /\ result.kind = "return"
       /\ result.table.state = "frame"
       /\ result.table.rows = RowsWith("Ticket Number", Q(query).ticket)

\* R- followed by n or more digits, and nothing else
IsTicketId(s, n) ==
    /\ Len(s) >= 2 + n
    /\ Sub(s, 1, 2) = "R-"
    /\ AllDigits(Sub(s, 3, Len(s)))

\* the ticket IDs of the table that have n or more digits
PresentTickets(n) ==
    IF "Ticket Number" \notin df.cols THEN {}
    ELSE {df.rows[i]["Ticket Number"].s : i \in {j \in 1..Len(df.rows) :
             /\ df.rows[j]["Ticket Number"].k = "str"
             /\ IsTicketId(df.rows[j]["Ticket Number"].s, n)}}

\* both handlers, each called on the ticket ID as the query and on the
\* table, return a text
BothAnswer(T) ==
    /\ intent_ticket_requests(Q(T), df, LAST_TICKET_LOOKUP).kind = "text"
    /\ intent_ticket_status(Q(T), df).kind = "text"

\* C5 as stated: for every ticket of the table whose ID is R- followed by
\* one or more digits, intent_ticket_requests and intent_ticket_status both
\* return a non-absent result on the query made of that ID.
C5_OneOrMoreDigits == (Called /\ query \in PresentTickets(1)) => BothAnswer(query)

\* C5 amended: for every ticket of the table whose ID is R- followed by
\* three or more digits, intent_ticket_requests and intent_ticket_status
\* both return a non-absent result on the query made of that ID.
C5_ThreeOrMoreDigits == (Called /\ query \in PresentTickets(3)) => BothAnswer(query)

C5_Witness ==
    /\ Called
    /\ query \in PresentTickets(3)
    /\ result.handler = 1
    /\ intent_ticket_status(Q(query), df).kind = "text"

\* C6: two calls of skybar_answer with the same query, on the same table
\* and the same day, return the same text, whatever was asked before the
\* first of them or between the two.
C6_SameText ==
    (probe.state = "recorded" /\ query = probe.query) => result.text = probe.text

\* the recorded query asked again, after calls before the recorded one and
\* a call with another query in between, one of which left a lookup behind
C6_Witness ==
    /\ probe.state = "recorded"
    /\ probe.before
    /\ probe.others
    /\ query = probe.query
    /\ result.handler = 1
    /\ LAST_TICKET_LOOKUP.state = "frame"

\* C7: a call of skybar_answer leaves the table as it was: the same
\* columns, the same rows, the same cells, whichever handler answers.
C7_TableUnchanged == [][df' = df]_vars

\* ticket_requests answered after rewriting the Ticket Number column of
\* its copy: the cell of the table still has its lower case and its blank
C7_Witness ==
    /\ Called
    /\ result.handler = 1
    /\ LAST_TICKET_LOOKUP.state = "frame"
    /\ \E i \in 1..Len(LAST_TICKET_LOOKUP.rows) :
          LAST_TICKET_LOOKUP.rows[i]["Ticket Number"] = Str("R-048484")
    /\ RowsWith("Ticket Number", "r-048484 ") # <<>>

\* an existence question about a ticket T = R- plus digits
ExistenceQuestions ==
    {q \in Queries : /\ Q(q).rl_keyword
                     /\ Contains(Q(q).q_low, "ticket")
                     /\ Q(q).ticket # ""}

\* C8: when T is on k >= 1 rows of the table, the existence question about
\* T gets the answer of record lookup: T found with k record(s), and the
\* sum of Credit Request Total over those rows.
C8_RecordLookupAnswers ==
    LET T == Q(query).ticket
        found == RowsWith("Ticket Number", T)
        total == sum_skipna([i \in 1..Len(found) |-> to_numeric(found[i]["Credit Request Total"])])
    IN (/\ Called
        /\ query \in ExistenceQuestions
        /\ {"Ticket Number", "Credit Request Total"} \subseteq df.cols
        /\ found # <<>>)
       => /\ result.kind = "return"
          /\ \E i \in 1..Len(result.text) :
                result.text[i] = Line("found record(s)", <<Str(T), Num(Len(found))>>)
          /\ \E i \in 1..Len(result.text) :
                result.text[i] = Line("Sum of Credit Request Total",
                                      <<Str(format_money(Num(total)))>>)

\* the lines of the text with a tag
Tagged(text, tag) == SelectSeq(text, LAMBDA l : l.tag = tag)

\* the rows the aging summary is about: dated, without a credit number
\* (every row when the table has no RTN_CR_No column), opened today or before
DaysOpen(i) == days_since(today, to_datetime(df.rows[i]["Date"]))

OpenRows ==
    IF "Date" \notin df.cols THEN {}
    ELSE {i \in 1..Len(df.rows) :
             /\ DaysOpen(i).k = "count"
             /\ DaysOpen(i).d >= 0
             /\ "RTN_CR_No" \in df.cols => ~has_rtn(df.rows[i]["RTN_CR_No"])}

\* the six buckets as ranges of days: 0-7, 8-15, 16-30, 31-60, 61-90, 90+
InBucket(b, d) ==
    CASE b = 1 -> 0 <= d /\ d <= 7
      [] b = 2 -> 8 <= d /\ d <= 15
      [] b = 3 -> 16 <= d /\ d <= 30
      [] b = 4 -> 31 <= d /\ d <= 60
      [] b = 5 -> 61 <= d /\ d <= 90
      [] b = 6 -> 91 <= d

\* C9: in the aging summary the six buckets partition the open rows: each
\* open row with DaysOpen >= 0 is in exactly one bucket, each bucket line
\* counts the open rows of its range, and the six counts add up to the
\* reported total of open rows.
C9_BucketsPartition ==
    (Called /\ result.handler = 8 /\ "Date" \in df.cols /\ OpenRows # {}) =>
       LET buckets == Tagged(result.text, "bucket")
           totals == Tagged(result.text, "Total open tickets without RTN_CR_No")
       IN /\ Len(buckets) = 6
          /\ \A b \in 1..6 :
                buckets[b].v = << Str(labels[b]),
                                  Count(Cardinality({i \in OpenRows : InBucket(b, DaysOpen(i).d)})) >>
          /\ \A i \in OpenRows :
                Cardinality({b \in 1..6 : InBucket(b, DaysOpen(i).d)}) = 1
          /\ totals = <<Line("Total open tickets without RTN_CR_No",
                             <<Count(Cardinality(OpenRows))>>)>>
          /\ SumSeq([b \in 1..6 |-> buckets[b].v[2].d]) = totals[1].v[1].d

\* a summary of two open rows, one opened today and one over 90 days ago
C9_Witness ==
    /\ Called
    /\ result.handler = 8
    /\ Cardinality(OpenRows) = 2
    /\ \E i \in OpenRows : DaysOpen(i).d = 0
    /\ \E i \in OpenRows : DaysOpen(i).d > 90
    /\ Len(Tagged(result.text, "bucket")) = 6

\* the population of the anomaly scan: the dated rows of the 90 days up to
\* the latest date, with their amounts in cents (0 when not a number)
Dated == {i \in 1..Len(df.rows) : to_datetime(df.rows[i]["Date"]).k = "ts"}

LatestDay ==
    IF Dated = {} THEN 0
    ELSE max_day([i \in 1..Len(df.rows) |->
                     IF i \in Dated THEN to_datetime(df.rows[i]["Date"]) ELSE Ts(0, 0)])

Population ==
    \* the one value of LatestDay, computed once
    UNION {{i \in Dated : between(to_datetime(df.rows[i]["Date"]), latest - 90, latest)} :
              latest \in {LatestDay}}

Amount(i) ==
    LET n == to_numeric(df.rows[i]["Credit Request Total"])
    IN IF n.k = "num" THEN n.d ELSE 0

AmountsOf(population) ==
    LET idx == Where([i \in 1..Len(df.rows) |-> i \in population])
    IN [j \in 1..Len(idx) |-> Amount(idx[j])]

\* |amount| >= $500 and |z| >= 3, z being defined when the amounts vary
ToFlag(population, amounts) ==
    IF std_is_zero(amounts) THEN {}
    ELSE {i \in population : Abs(Amount(i)) >= 50000 /\ z_is_extreme(Amount(i), amounts)}

\* the anomalies of the answer: their number and their amounts
Flagged ==
    LET found == Tagged(result.text, "Anomalous credits found")
        entries == Tagged(result.text, "entry")
    IN [count |-> IF found = <<>> THEN 0 ELSE found[1].v[1].d,
        amounts |-> {entries[i].v[6] : i \in 1..Len(entries)}]

\* C10: the anomaly scan flags a row of its 90-day population iff
\* |amount| >= 500 and |z| >= 3, both inclusive: an amount of exactly 500
\* with z exactly 3.0 is flagged, an amount of 499.99 never is.
C10_InclusiveThresholds ==
    (Called /\ result.handler = 14) =>
       \A population \in {Population} : \A amounts \in {AmountsOf(population)} :
          \A flag \in {ToFlag(population, amounts)} : \A flagged \in {Flagged} :
             /\ flagged.count = Cardinality(flag)
             /\ flagged.amounts = {Str(format_money(Num(Amount(i)))) : i \in flag}
             /\ Str("$499.99") \notin flagged.amounts

\* nine credits of $0, one of $50 and one of $500: mean 50, deviation 150,
\* so the credit of $500 has z = 3 exactly, and it is flagged
C10_Witness ==
    /\ Called
    /\ result.handler = 14
    /\ Len(df.rows) = 11
    /\ \E population \in {Population} : \E amounts \in {AmountsOf(population)} :
          /\ Len(amounts) = 11
          /\ SumSeq(amounts) = 55000
          /\ \E i \in population : Amount(i) = 5000
          /\ \E i \in ToFlag(population, amounts) : Amount(i) = 50000
    /\ Flagged.amounts = {Str("$500.00")}

\* the answer of the anomaly scan for credits that do not vary
NoClearAnomalies ==
    <<Line("All recent credits are roughly the same size - no clear anomalies.", <<>>)>>

\* the amounts are one and the same value
Identical(amounts) == \A i, j \in 1..Len(amounts) : amounts[i] = amounts[j]

\* C11: whenever all the Credit Request Total values of the 90-day
\* population are identical, for a population of one row or more, the
\* anomaly scan answers "no clear anomalies" (and so computes no z-score
\* with a zero or undefined deviation).
C11_IdenticalAmounts ==
    (Called /\ result.handler = 14) =>
       \A population \in {Population} : \A amounts \in {AmountsOf(population)} :
          (population # {} /\ Identical(amounts)) => result.text = NoClearAnomalies

\* the string is part of the text, at its start or further on
Within(token, text) ==
    \E i \in 1..Len(text) : \E j \in i..Len(text) : SubSeq(text, i, j) = token

\* the rows of df whose Customer Number, trimmed and upper-cased, starts
\* with or contains the token
CustomerRows(token) ==
    SelectSeq(df.rows, LAMBDA r : Within(token, strip(upper(str_of(r["Customer Number"])))))

\* the tickets an answer of the customer history lists: customer and ticket
\* of each entry
Listed(text) ==
    {<<text[i].v[2], text[i].v[3]>> : i \in {n \in 1..Len(text) : text[n].tag = "entry"}}

CustomerQuery ==
    /\ Called
    /\ result.handler = 4
    /\ result.kind = "return"
    /\ Q(query).ct_days = 0
    /\ Q(query).m_cust # ""
    /\ "Customer Number" \in df.cols

\* C12: for "show all tickets for customer <tok>" the customer history
\* covers every row whose trimmed, upper-cased Customer Number starts with
\* or contains the upper-cased token, and no other row: it counts and lists
\* exactly these rows, and says it sees none when there is none.
C12_MatchingRows ==
    CustomerQuery =>
       LET rows == CustomerRows(upper(strip(Q(query).m_cust)))
       IN IF rows = <<>>
          THEN result.text[1].tag = "I don't see any tickets for customers matching"
          ELSE /\ Len(result.text) >= 3
               /\ result.text[3] = Line("Tickets", <<Count(Len(rows))>>)
               /\ Listed(result.text) =
                     {<<r["Customer Number"], get(r, "Ticket Number", Str("N/A"))>> :
                         r \in {rows[i] : i \in 1..Len(rows)}}

\* rows of YAM01 and of YAM33, token YAM: both are returned
C12_Witness ==
    /\ CustomerQuery
    /\ query = "show all tickets for customer YAM"
    /\ Len(df.rows) = 2
    /\ {str_of(df.rows[i]["Customer Number"]) : i \in 1..2} = {"YAM01", "YAM33"}
    /\ Cardinality(Listed(result.text)) = 2
    /\ result.text[3] = Line("Tickets", <<Count(2)>>)

\* the overview is asked on a table that has no rows
EmptyOverview ==
    /\ Called
    /\ query = "MiniTwin, give me a credit overview"
    /\ df.rows = <<>>

\* a dollar sum of nothing
NoDollars == {<<Str("N/A")>>, <<Str("$0.00")>>}

\* C13: on an empty table (no rows, with or without columns) the query
\* "MiniTwin, give me a credit overview" is answered by the overall summary,
\* which reports 0 total records and dollar sums of "N/A" or $0.00, and
\* nothing is raised.
C13_EmptyOverview ==
    EmptyOverview =>
       /\ result.kind = "return"
       /\ result.handler = 10
       /\ Len(result.text) = 12
       /\ result.text[3] = Line("Total records in dataset", <<Count(0)>>)
       /\ result.text[4].tag = "Total Credit Request Total"
       /\ \A i \in {4, 8, 12} : result.text[i].v \in NoDollars

\* the overview of a table without rows and without columns
C13_Witness ==
    /\ EmptyOverview
    /\ df.cols = {}
    /\ result.handler = 10
    /\ result.text[4].v = <<Str("N/A")>>
    /\ result.text[8].v = <<Str("$0.00")>>

\* the title under which the help text lists each handler
Title ==
    [name \in {INTENTS[k] : k \in 1..Len(INTENTS)} |->
        CASE name = "intent_ticket_requests" -> "Ticket requests"
          [] name = "intent_ticket_status" -> "Ticket status"
          [] name = "intent_record_lookup" -> "Record lookup"
          [] name = "intent_customer_tickets" -> "Customer history"
          [] name = "intent_credit_activity" -> "Credit activity"
          [] name = "intent_rtn_summary" -> "Credits with RTN"
          [] name = "intent_priority_tickets" -> "Priority tickets"
          [] name = "intent_credit_aging" -> "Credit aging"
          [] name = "intent_stalled_tickets" -> "Stalled tickets"
          [] name = "intent_overall_summary" -> "Overall overview"
          [] name = "intent_top_accounts" -> "Top accounts"
          [] name = "intent_top_items" -> "Top items"
          [] name = "intent_credit_trends" -> "Credit trends"
          [] name = "intent_credit_anomalies" -> "Anomalies"]

\* C14: the numbering and order of the 14 intents in the fallback help text
\* is the priority order of the router: item k of the help text describes
\* the k-th handler of INTENTS.
C14_HelpOrder ==
    (Called /\ result.handler = 0) =>
       /\ Len(result.text) = 3 + Len(INTENTS)
       /\ \A k \in 1..Len(INTENTS) :
             result.text[3 + k].tag = IntStr(k) \o ". " \o Title[INTENTS[k]]

\* the fault of a column looked up without a test for it: df["c"] on a table
\* without c, or .astype of the default that df.get("c", "") gives
MissingColumnFault(r) ==
    /\ r.kind = "raise"
    /\ r.text[1].tag \in {"KeyError", "AttributeError"}

\* C15: each of the 14 handlers, called on its own with a query and a table
\* from which one or more columns are absent, returns a text or declines
\* and never faults on the absent column.
C15_MissingColumn ==
    (Called /\ df.cols # AllCols) =>
       \A k \in 1..Len(INTENTS) : ~MissingColumnFault(Outcome(k))

\* the overview answered on a table that has the RTN_CR_No column
OverviewAnswered ==
    /\ Called
    /\ result.handler = 10
    /\ result.kind = "return"
    /\ "RTN_CR_No" \in df.cols

\* C16: the handlers that restrict to open rows use one rule, so on any
\* table they agree on which rows are open: the rows the priority rule and
\* the aging rule leave open are the same, and the overview counts exactly
\* those rows as open tickets without a credit number.
C16_SameOpenRows ==
    OverviewAnswered =>
       /\ \A i \in 1..Len(df.rows) :
             no_rtn_mask(df.rows[i]) = ~has_rtn(df.rows[i]["RTN_CR_No"])
       /\ result.text[7] =
             Line("Count", <<Count(Cardinality({i \in 1..Len(df.rows) : no_rtn_mask(df.rows[i])}))>>)

\* the rows of df whose trimmed, upper-cased RTN_CR_No is a credit number:
\* none of the sentinels for an absent one
Sentinels == {"", "NAN", "NONE", "NULL", "NA"}

NumberedRows ==
    {i \in 1..Len(df.rows) :
        str_upper_strip(astype_str(df.rows[i]["RTN_CR_No"])) \notin Sentinels}

RtnSummaryAnswered ==
    /\ Called
    /\ result.handler = 6
    /\ result.kind = "return"
    /\ "RTN_CR_No" \in df.cols

\* C17: intent_rtn_summary counts and lists a row as having a credit number
\* iff its trimmed, upper-cased RTN_CR_No is none of "", NAN, NONE, NULL, NA:
\* it reports none when no row has one, and otherwise the count of those
\* rows and one entry for each, so a row with "NA" is not among them.
C17_RtnSentinels ==
    RtnSummaryAnswered =>
       IF NumberedRows = {}
       THEN result.text = <<Line("I don't see any credits with a populated RTN_CR_No yet.", <<>>)>>
       ELSE /\ result.text[1] = Line("credit request(s) with a non-empty RTN_CR_No",
                                     <<Count(Cardinality(NumberedRows))>>)
            /\ Len(result.text) = 3 + Cardinality(NumberedRows)
            /\ \A j \in 4..Len(result.text) :
                  \E i \in NumberedRows : result.text[j].v[5] = df.rows[i]["RTN_CR_No"]

\* the numbers of digits after each "R-" or "r-" of the query
TicketDigits ==
    {DigitRun(query, i + 2) :
        i \in {j \in 1..Len(query) : lowerChar(Ch(query, j)) = "r" /\ Ch(query, j + 1) = "-"}}

\* the query has a ticket ID of three or more digits
LongTicketId == \E n \in TicketDigits : n >= 3

\* the handler that ended the call, "" when every handler declined
Answerer == IF result.handler = 0 THEN "" ELSE INTENTS[result.handler]

Appended == SubSeq(history', Len(history) + 1, Len(history'))

\* C19: in the chat shell each submission of a non-blank query appends
\* exactly one (query, response) pair to the history, the user entry of the
\* query followed by one assistant entry, and a blank query appends nothing.
C19_PairPerSubmission ==
    [][IF strip(query') = "" THEN history' = history
       ELSE /\ Len(history') = Len(history) + 2
            /\ SubSeq(history', 1, Len(history)) = history
            /\ Appended[1] = Entry("user", QueryContent(query'))
            /\ Appended[2].role = "assistant"]_vars

\* C20: in the chat shell the history only grows: every run of the script
\* leaves the entries it found unchanged and in place, and a submission
\* whose routing raises adds the user entry of the query and an assistant
\* entry that shows the error, and the session goes on.
C20_HistoryGrows ==
    [][/\ Len(history') >= Len(history)
       /\ SubSeq(history', 1, Len(history)) = history
       /\ (strip(query') # "" /\ result'.kind = "raise") =>
             /\ \E i \in 1..Len(Appended) : Appended[i] = Entry("user", QueryContent(query'))
             /\ \E i \in 1..Len(Appended) :
                   /\ Appended[i].role = "assistant"
                   /\ Appended[i].content.kind = "error"
                   /\ Appended[i].content.text = result'.text]_vars

\* a submission that raised after one that was answered: the answer is
\* still the second entry and the error is the last
C20_Witness ==
    /\ shell = "part_000"
    /\ result.kind = "raise"
    /\ Len(history) = 4
    /\ history[1].role = "user"
    /\ history[2].content.kind = "pair"
    /\ history[2].content.text # <<>>
    /\ history[3] = Entry("user", QueryContent(query))
    /\ history[4].content.kind = "error"

\* the update timestamp of row i of df: the stamp in its Status
UpdateStamp(i) == str_stamp(astype_str(df.rows[i]["Status"]))

\* the rows updated at any time of a day from start to Today, both included
UpdatedFrom(start) ==
    {i \in 1..Len(df.rows) :
        UpdateStamp(i).k = "ts" /\ UpdateStamp(i).d >= start /\ UpdateStamp(i).d <= today}

ActivityAnswered ==
    /\ Called
    /\ result.handler = 5
    /\ result.kind = "return"

\* C21: the window of intent_credit_activity includes the whole start day
\* and the whole end day: the records it counts are the rows whose update
\* timestamp falls at any time of day from the start day to today.
C21_WholeDays ==
    ActivityAnswered =>
       LET n == Cardinality(UpdatedFrom(get_date_window(Q(query), today)))
       IN IF n = 0
          THEN result.text[1].tag = "I don't see any timestamped credit updates between"
          ELSE /\ Len(result.text) >= 2
               /\ result.text[2] = Line("credit request record(s) with timestamped updates",
                                        <<Count(n)>>)

\* the query mentions credit and update
MentionsCreditUpdate ==
    Contains(lower(query), "credit") /\ Contains(lower(query), "update")

\* the query names no window: no "from ... to today" and none of the
\* phrases of the relative windows
NamesNoWindow ==
    /\ ~Contains(lower(query), "from")
    /\ ~AnyIn(lower(query), {"last 7", "last seven", "last week", "last 30", "last thirty",
                             "last month", "this month"})

\* C27: intent_credit_activity declines whenever the query mentions credit
\* and update but no date window can be resolved from it: it never falls
\* back to a default window, and the router goes on to the later handlers.
C27_NoDefaultWindow ==
    (Called /\ MentionsCreditUpdate /\ NamesNoWindow) =>
       /\ Outcome(5).kind = "none"
       /\ result.handler # 5
       /\ result.kind = "return" => \E k \in 1..Len(result.invoked) : result.invoked[k] = 6

\* a question about updated credits without a window, on a table with a
\* row updated today: the activity handler was called and went past
C27_Witness ==
    /\ Called
    /\ query = "how many credits did I update?"
    /\ \E i \in 1..Len(df.rows) : UpdateStamp(i).k = "ts" /\ UpdateStamp(i).d = today
    /\ \E k \in 1..Len(result.invoked) : result.invoked[k] = 5
    /\ Outcome(5).kind = "none"
    /\ result.kind = "return"

\* whole days from the update timestamp of row i to today
DaysSinceUpdate(i) == days_since(today, UpdateStamp(i)).d

\* the rows the stalled answer keeps for the threshold N
KeptRows(N) ==
    {i \in 1..Len(df.rows) :
        /\ UpdateStamp(i).k = "ts"
        /\ DaysSinceUpdate(i) >= N
        /\ ~has_rtn(df.rows[i]["RTN_CR_No"])}

StalledAnswered ==
    /\ Called
    /\ result.handler = 9
    /\ result.kind = "return"
    /\ Len(result.text) >= 7

\* C22: in the stalled answer for the threshold N every kept row is counted
\* in exactly one of the three reported buckets and the three counts add up
\* to the reported total: the first bucket counts the rows with
\* N <= d <= N+7, the bucket 15-30 only rows with 15 <= d <= 30 and the
\* bucket 30+ only rows with d > 30.
C22_StallBuckets ==
    StalledAnswered =>
       LET N == result.text[1].v[1].d
           kept == KeptRows(N)
           first == result.text[5].v[3].d
           middle == result.text[6].v[1].d
           last == result.text[7].v[1].d
       IN /\ result.text[2] = Line("Total stalled tickets", <<Count(Cardinality(kept))>>)
          /\ first + middle + last = Cardinality(kept)
          /\ first = Cardinality({i \in kept : DaysSinceUpdate(i) <= N + 7})
          /\ middle <= Cardinality({i \in kept : DaysSinceUpdate(i) >= 15 /\ DaysSinceUpdate(i) <= 30})
          /\ last <= Cardinality({i \in kept : DaysSinceUpdate(i) > 30})

\* row i of df has a credit number under the OR-composed rule: RTN_CR_No
\* is no sentinel, or Status has an evidence phrase
HasCreditNumber(i) ==
    \/ str_upper_strip(astype_str(df.rows[i]["RTN_CR_No"])) \notin Sentinels
    \/ AnyIn(str_upper(astype_str(df.rows[i]["Status"])),
             {"CREDIT NUMBER", "CREDIT REQUEST NO", "RTNCM"})

\* the instant of the Date of row i, in seconds, when it parses
DateOf(i) == to_datetime(df.rows[i]["Date"])
Instant(c) == c.d * 86400 + c.t

\* the rows with a parseable Date of 15 days ago or earlier and no credit
\* number
PriorityRows ==
    {i \in 1..Len(df.rows) :
        /\ DateOf(i).k = "ts"
        /\ ~HasCreditNumber(i)
        /\ Instant(DateOf(i)) <= (today - 15) * 86400}

PriorityAnswered ==
    /\ Called
    /\ result.handler = 7
    /\ result.kind = "return"
    /\ {"Date", "RTN_CR_No", "Status", "Ticket Number"} \subseteq df.cols

Smaller(a, b) == IF a < b THEN a ELSE b

DatedRows == {i \in 1..Len(df.rows) : DateOf(i).k = "ts"}
LatestDated == CHOOSE d \in {DateOf(i).d : i \in DatedRows} : \A i \in DatedRows : DateOf(i).d <= d

\* the rows dated at any time of a day from lo to hi
DatedWithin(lo, hi) == {i \in DatedRows : DateOf(i).d >= lo /\ DateOf(i).d <= hi}

TrendsAnswered ==
    /\ Called
    /\ result.handler = 13
    /\ result.kind = "return"
    /\ DatedRows # {}

\* C24: intent_credit_trends compares two consecutive 30-day windows that
\* end at the latest Date of the table: the last window is the 30 days up
\* to that day, the previous one the 30 days before them, and every row
\* dated within those 60 days is counted in exactly one of the two.
C24_TwoWindows ==
    TrendsAnswered =>
       LET last == DatedWithin(LatestDated - 29, LatestDated)
           prev == DatedWithin(LatestDated - 59, LatestDated - 30)
       IN IF last = {} \/ prev = {}
          THEN Len(result.text) = 1
          ELSE /\ Len(result.text) >= 5
               /\ result.text[2] = Line("Previous 30 days", <<Ts(LatestDated - 59, 0), Ts(LatestDated - 30, 0)>>)
               /\ result.text[3] = Line("Last 30 days", <<Ts(LatestDated - 29, 0), Ts(LatestDated, 0)>>)
               /\ result.text[5].v[1] = Count(Cardinality(last))
               /\ result.text[5].v[2] = Count(Cardinality(prev))

\* the column a ranking groups by, for the handler that answered
KeyColumn == IF result.handler = 11 THEN "Customer Number" ELSE "Item Number"

\* intent_top_accounts or intent_top_items answered on a table that has the
\* columns of the ranking
RankingAnswered ==
    /\ Called
    /\ result.handler \in {11, 12}
    /\ result.kind = "return"
    /\ {KeyColumn, "Credit Request Total"} \subseteq df.cols

\* the rows whose Credit Request Total parses and is not zero
CreditRows ==
    {i \in 1..Len(df.rows) :
        /\ str_numeric(df.rows[i]["Credit Request Total"]).k = "num"
        /\ str_numeric(df.rows[i]["Credit Request Total"]).d # 0}

\* the row has a credit number: the cell is neither missing nor blank
PresentRtn(i) ==
    /\ notna(df.rows[i]["RTN_CR_No"])
    /\ str_strip(df.rows[i]["RTN_CR_No"]) # ""

KeysOf(S) == {df.rows[i][KeyColumn].s : i \in S}
GroupOf(S, k) == {i \in S : df.rows[i][KeyColumn].s = k}

TicketCount(G) ==
    IF "Ticket Number" \in df.cols
    THEN Cardinality({df.rows[i]["Ticket Number"].s : i \in G})
    ELSE Cardinality(G)

DollarSum(G) ==
    sum_skipna([i \in 1..Len(df.rows) |->
                   IF i \in G THEN str_numeric(df.rows[i]["Credit Request Total"]) ELSE NaN])

\* the lines of the answer that list a group
ListedGroups == {j \in 1..Len(result.text) : result.text[j].tag = "entry"}

\* the answer ranks the groups of the rows S, and nothing else
Ranks(S) ==
    IF S = {}
    THEN result.text[1].tag = "I don't see any credit records I can use to rank"
    ELSE /\ Len(result.text) >= 4
         /\ result.text[2] = Line("Total in ranking", <<Count(Cardinality(KeysOf(S)))>>)
         /\ \A j \in ListedGroups :
               LET k == result.text[j].v[1].s
               IN /\ k \in KeysOf(S)
                  /\ result.text[j].v[2] = Count(TicketCount(GroupOf(S, k)))
                  /\ result.text[j].v[3] = Str(format_money(Num(DollarSum(GroupOf(S, k)))))

\* C25: when the query asks for credits "issued", intent_top_accounts and
\* intent_top_items rank only the rows whose RTN_CR_No is present (a row
\* whose RTN_CR_No is missing or blank adds to no group's ticket count or
\* dollar sum); when the table has no RTN_CR_No column every credit row is
\* ranked.
C25_IssuedOnly ==
    (RankingAnswered /\ Q(query).issued) =>
        Ranks(IF "RTN_CR_No" \in df.cols THEN {i \in CreditRows : PresentRtn(i)} ELSE CreditRows)

\* the group of key a ranks no lower than the group of key b: a larger
\* dollar sum, or the same sum and no fewer tickets
NotBelow(S, a, b) ==
    \/ DollarSum(GroupOf(S, a)) > DollarSum(GroupOf(S, b))
    \/ /\ DollarSum(GroupOf(S, a)) = DollarSum(GroupOf(S, b))
       /\ TicketCount(GroupOf(S, a)) >= TicketCount(GroupOf(S, b))

ListedKey(j) == result.text[j].v[1].s

\* intent_top_accounts answered a query that ranks every credit row
AllCreditsRanked ==
    /\ RankingAnswered
    /\ result.handler = 11
    /\ ~Q(query).issued \/ "RTN_CR_No" \notin df.cols

\* C26: intent_top_accounts groups the rows whose Credit Request Total
\* parses and is not zero by the customer column, counts per group the
\* distinct tickets (the rows when there is no ticket column) and sums the
\* dollars, orders the groups by (dollar sum, ticket count) both descending
\* and lists at most the first 10 of that order.
C26_TopTen ==
    AllCreditsRanked =>
        /\ Ranks(CreditRows)
        /\ CreditRows # {} =>
              /\ Cardinality(ListedGroups) = Smaller(10, Cardinality(KeysOf(CreditRows)))
              /\ \A i, j \in ListedGroups :
                    i < j => /\ ListedKey(i) # ListedKey(j)
                             /\ NotBelow(CreditRows, ListedKey(i), ListedKey(j))
              /\ \A j \in ListedGroups :
                    \A u \in KeysOf(CreditRows) \ {ListedKey(i) : i \in ListedGroups} :
                       NotBelow(CreditRows, ListedKey(j), u)

\* more than 10 accounts, one left out, and two listed accounts with the
\* same dollar sum and different ticket counts
C26_Witness ==
    /\ AllCreditsRanked
    /\ Cardinality(KeysOf(CreditRows)) > 10
    /\ Cardinality(ListedGroups) = 10
    /\ \E i, j \in ListedGroups :
          /\ i < j
          /\ DollarSum(GroupOf(CreditRows, ListedKey(i))) = DollarSum(GroupOf(CreditRows, ListedKey(j)))
          /\ TicketCount(GroupOf(CreditRows, ListedKey(i))) > TicketCount(GroupOf(CreditRows, ListedKey(j)))

\* the handlers of the session that return a text, empty or not, alone or
\* with a table
WithText == {k \in 1..Len(stubs) : stubs[k].kind \in {"text", "pair"}}

ItemHandlers ==
    << "intent_ticket_status", "intent_ticket_requests", "intent_record_lookup",
       "intent_customer_tickets", "intent_credit_activity", "intent_rtn_summary",
       "intent_priority_tickets", "intent_credit_aging", "intent_stalled_tickets",
       "intent_overall_summary", "intent_top_accounts", "intent_top_items",
       "intent_credit_trends", "intent_credit_anomalies" >>

\* C29: each of the 14 example phrases of the help text, asked on a table
\* that holds all columns, is answered by the handler its item names, not
\* by an earlier handler of the priority order.
C29_ExamplesReachTheirIntent ==
    \A k \in 1..Len(HelpExamples) :
       (Called /\ df.cols = AllCols /\ query = HelpExamples[k]) =>
           /\ result.kind = "return"
           /\ result.handler # 0
           /\ INTENTS[result.handler] = ItemHandlers[k]

\* the rows of df whose Ticket Number, upper-cased and stripped, is id
RowsOfTicket(id) ==
    {i \in 1..Len(df.rows) : str_upper_strip(df.rows[i]["Ticket Number"]) = id}

\* the tickets the last query names that have rows in df
FoundTickets ==
    {k \in 1..Len(Q(query).ticket_ids) : RowsOfTicket(Q(query).ticket_ids[k]) # {}}

\* C30: after every skybar_answer call LAST_TICKET_LOOKUP describes that
\* call only: it holds the rows of a ticket the call's query names, or
\* nothing (None, or never assigned) when the call found no ticket rows; a
\* value stored by an earlier call does not survive a later call.
C30_LookupOfLastCall ==
    (Called /\ "Ticket Number" \in df.cols) =>
        IF FoundTickets = {}
        THEN LAST_TICKET_LOOKUP.state \in {"None", "unbound"}
        ELSE /\ LAST_TICKET_LOOKUP.state = "frame"
             /\ \E k \in FoundTickets :
                   /\ Len(LAST_TICKET_LOOKUP.rows) = Cardinality(RowsOfTicket(Q(query).ticket_ids[k]))
                   /\ \A r \in 1..Len(LAST_TICKET_LOOKUP.rows) :
                         LAST_TICKET_LOOKUP.rows[r]["Ticket Number"].s = Q(query).ticket_ids[k]

====
